---- MODULE Spec2Model ----
(***************************************************************************)
(* U-HSP rules engine: RuleEvaluator (src/src/engine/RuleEvaluator.ts),    *)
(* ContentPackLoader (src/src/engine/ContentPackLoader.ts),                *)
(* ActionExecutor (src/src/config/index.ts) and WorkflowEngine             *)
(* (src/src/hooks/index.ts).                                               *)
(*                                                                         *)
(* JavaScript values are records tagged by `kind`.  A string is the        *)
(* sequence of its characters; in a field path a name is written as one    *)
(* element and "." is the delimiter element.                               *)
(***************************************************************************)
EXTENDS Integers, Sequences, FiniteSets, TLC

VARIABLES
  sessionState,  \* the SessionState handed to the evaluator
  conditions,    \* the RightRuleConditions of the rule under evaluation
  evaluated,     \* has evaluateRule been called on (conditions, sessionState)
  result,        \* completion of that evaluateRule call
  rules,         \* the caller's RightRule[] array
  calls,         \* the last two RuleEvaluator list operations called
  matched,       \* last evaluateRules run: indexes into rules of the rules returned
  triggered,     \* last getTriggeredActions: the action ids returned
  raised,        \* did the last RuleEvaluator call raise to its caller
  loadedPacks,   \* ContentPackLoader.loadedPacks: the Map's entries in order
  before,        \* loadedPacks as the last operation found it
  packData,      \* argument of the last loadContentPack
  packId,        \* argument of the last operation that takes a pack id
  op,            \* name of the last ContentPackLoader operation
  threw,         \* did that operation raise
  returned,      \* what that operation returned
  executorOp,    \* name of the last ActionExecutor operation
  executorArg,   \* the action or actions that call was given, as given
  executorResult, \* what that call returned
  urlPc,         \* where the last loadContentPackFromUrl call stands
  fetches,       \* how many times that call has called fetch
  response,      \* the Response its fetch resolved with
  workflow,      \* WorkflowEngine.workflow
  session,       \* WorkflowEngine.session
  priorSession,  \* the session as the last submitResponse found it
  submitted,     \* the QuestionResponse that call was given
  submission,    \* what that call returned
  urlCalls,      \* the loadContentPackFromUrl calls that may overlap
  urlCall        \* which of them took the last step

vars == <<sessionState, conditions, evaluated, result, rules, calls, matched,
          triggered, raised, loadedPacks, before, packData, packId, op, threw,
          returned, executorOp, executorArg, executorResult, urlPc, fetches,
          response, workflow, session, priorSession, submitted, submission,
          urlCalls, urlCall>>

evalVars == <<sessionState, conditions, evaluated, result>>
rulesVars == <<rules, calls, matched, triggered, raised>>
loaderVars == <<loadedPacks, before, packData, packId, op, threw, returned>>
executorVars == <<executorOp, executorArg, executorResult>>
urlVars == <<urlPc, fetches, response>>
workflowVars == <<workflow, session, priorSession, submitted, submission>>
overlapVars == <<urlCalls, urlCall>>

(***************************************************************************)
(* JavaScript values and completions                                       *)
(***************************************************************************)
Undefined == [kind |-> "undefined"]
Null == [kind |-> "null"]
Bool(b) == [kind |-> "boolean", val |-> b]
Num(n) == [kind |-> "number", val |-> n]
Str(s) == [kind |-> "string", val |-> s]
Arr(a) == [kind |-> "array", val |-> a]
Obj(f) == [kind |-> "object", val |-> f]
\* a function object, such as the Object constructor every object inherits
Fn == [kind |-> "function"]

EmptyObject == [k \in {} |-> Undefined]

\* a call either returns a value or throws
Return(v) == [threw |-> FALSE, value |-> v]
Throw == [threw |-> TRUE, value |-> Undefined]

\* JavaScript truthiness (the `value &&` and `!pack.id` tests)
Truthy(v) ==
  CASE v.kind = "undefined" -> FALSE
    [] v.kind = "null" -> FALSE
    [] v.kind = "boolean" -> v.val
    [] v.kind = "number" -> v.val # 0
    [] v.kind = "string" -> Len(v.val) > 0
    [] OTHER -> TRUE

\* typeof value === 'object' (true of null, arrays and plain objects)
TypeofObject(v) == v.kind \in {"null", "array", "object"}

\* a === b: primitives by value, arrays and objects by reference; a value of
\* the session state and a value of a rule are never the same reference
StrictEquals(a, b) ==
  /\ a.kind = b.kind
  /\ CASE a.kind \in {"undefined", "null"} -> TRUE
       [] a.kind \in {"boolean", "number", "string"} -> a.val = b.val
       [] OTHER -> FALSE

\* an includes that only compares the types of the elements
ArrayIncludesByType(a, v) == \E i \in 1..Len(a) : a[i].kind = v.kind

\* Array.prototype.includes
ArrayIncludes(a, v) == \E i \in 1..Len(a) : StrictEquals(a[i], v)

\* String.prototype.includes: v occurs in s as a run of characters
StringIncludes(s, v) ==
  \E i \in 0..(Len(s) - Len(v)) : \A j \in 1..Len(v) : s[i + j] = v[j]

\* property names every object and array inherits from its prototype
ObjectPrototypeKeys == {"constructor"}

\* the index property names of an array
IndexName == <<"0", "1", "2">>

\* `part in value` for an object or array
HasProperty(v, part) ==
  \/ part \in ObjectPrototypeKeys
  \/ v.kind = "object" /\ part \in DOMAIN v.val
  \/ v.kind = "array" /\ part = "length"
  \/ v.kind = "array" /\ \E i \in 1..Len(v.val) : IndexName[i] = part

\* value[part], for a part that is `in` value
GetProperty(v, part) ==
  IF v.kind = "object" /\ part \in DOMAIN v.val THEN v.val[part]
  ELSE IF v.kind = "array" /\ part = "length" THEN Num(Len(v.val))
  ELSE IF v.kind = "array" /\ \E i \in 1..Len(v.val) : IndexName[i] = part
    THEN v.val[CHOOSE i \in 1..Len(v.val) : IndexName[i] = part]
  ELSE Fn

(***************************************************************************)
(* RuleEvaluator                                                           *)
(***************************************************************************)
RECURSIVE SplitFrom(_, _, _)
SplitFrom(path, i, cur) ==
  IF i > Len(path) THEN <<cur>>
  ELSE IF path[i] = "." THEN <<cur>> \o SplitFrom(path, i + 1, "")
  ELSE SplitFrom(path, i + 1, cur \o path[i])

\* path.split('.')
split(path) == SplitFrom(path, 1, "")

RECURSIVE WalkParts(_, _, _)
\* the for loop of getFieldValue
WalkParts(parts, i, value) ==
  IF i > Len(parts) THEN value
  ELSE IF Truthy(value) /\ TypeofObject(value) /\ HasProperty(value, parts[i])
    THEN WalkParts(parts, i + 1, GetProperty(value, parts[i]))
    ELSE Undefined

RECURSIVE UnguardedWalk(_, _, _)
UnguardedWalk(parts, i, value) ==
  IF i > Len(parts) THEN Return(value)
  ELSE IF value.kind \in {"undefined", "null"} THEN Throw
  ELSE IF value.kind \in {"object", "array"} /\ HasProperty(value, parts[i])
    THEN UnguardedWalk(parts, i + 1, GetProperty(value, parts[i]))
    ELSE UnguardedWalk(parts, i + 1, Undefined)

\* getFieldValue reading value[part] without the `in` guard
getFieldValueUnguarded(path, state) ==
  IF path.kind # "string" THEN Throw
  ELSE UnguardedWalk(split(path.val), 1, state)

\* path.split throws when path is not a string
getFieldValue(path, state) ==
  IF path.kind # "string" THEN Throw
  ELSE Return(WalkParts(split(path.val), 1, state))

\* the switch of evaluateConditionRule
\* typeof fieldValue === 'number' && typeof value === 'number'
BothNumbers(fieldValue, value) ==
  fieldValue.kind = "number" /\ value.kind = "number"

greaterThan(fieldValue, value) ==
  BothNumbers(fieldValue, value) /\ fieldValue.val > value.val

lessThan(fieldValue, value) ==
  BothNumbers(fieldValue, value) /\ fieldValue.val < value.val

greaterThanOrEqual(fieldValue, value) ==
  BothNumbers(fieldValue, value) /\ fieldValue.val >= value.val

\* lessThanOrEqual written as the negation of greaterThan
lessThanOrEqualByNegation(fieldValue, value) ==
  ~greaterThan(fieldValue, value)

lessThanOrEqual(fieldValue, value) ==
  BothNumbers(fieldValue, value) /\ fieldValue.val <= value.val

\* notIn written as the negation of in
notInByNegation(fieldValue, value) ==
  ~(value.kind = "array" /\ ArrayIncludes(value.val, fieldValue))

notIn(fieldValue, value) ==
  value.kind = "array" /\ ~ArrayIncludes(value.val, fieldValue)

\* an exists that takes null for a value
existsUnlessUndefined(fieldValue) == fieldValue.kind # "undefined"

\* fieldValue !== undefined && fieldValue !== null
exists(fieldValue) == fieldValue.kind \notin {"undefined", "null"}

\* a default case that lets the condition pass
defaultCasePasses(operator) == TRUE

\* the default case of the switch: warn and return false
defaultCase(operator) == FALSE

ApplyOperator(operator, fieldValue, value) ==
  CASE operator = "equals" -> StrictEquals(fieldValue, value)
    [] operator = "notEquals" -> ~StrictEquals(fieldValue, value)
    [] operator = "greaterThan" -> greaterThan(fieldValue, value)
    [] operator = "lessThan" -> lessThan(fieldValue, value)
    [] operator = "greaterThanOrEqual" -> greaterThanOrEqual(fieldValue, value)
    [] operator = "lessThanOrEqual" -> lessThanOrEqual(fieldValue, value)
    [] operator = "contains" ->
         IF fieldValue.kind = "string" /\ value.kind = "string"
           THEN StringIncludes(fieldValue.val, value.val)
         ELSE IF fieldValue.kind = "array"
           THEN ArrayIncludes(fieldValue.val, value)
         ELSE FALSE
    [] operator = "notContains" ->
         IF fieldValue.kind = "string" /\ value.kind = "string"
           THEN ~StringIncludes(fieldValue.val, value.val)
         ELSE IF fieldValue.kind = "array"
           THEN ~ArrayIncludes(fieldValue.val, value)
         ELSE TRUE
    [] operator = "in" ->
         value.kind = "array" /\ ArrayIncludes(value.val, fieldValue)
    [] operator = "notIn" -> notIn(fieldValue, value)
    [] operator = "exists" -> exists(fieldValue)
    [] operator = "notExists" -> fieldValue.kind \in {"undefined", "null"}
    [] OTHER -> defaultCase(operator)

evaluateConditionRule(rule, state) ==
  LET got == getFieldValue(rule.field, state)
  IN IF got.threw THEN Throw
     ELSE Return(ApplyOperator(rule.operator, got.value, rule.value))

\* the switch without its `allResults.length > 0` tests
CombineVacuous(type, allResults) ==
  CASE type = "all" -> \A i \in 1..Len(allResults) : allResults[i]
    [] type = "any" -> \E i \in 1..Len(allResults) : allResults[i]
    [] type = "none" -> \A i \in 1..Len(allResults) : ~allResults[i]
    [] OTHER -> FALSE

\* the switch on the group type over the combined results
Combine(type, allResults) ==
  CASE type = "all" ->
         Len(allResults) > 0 /\ \A i \in 1..Len(allResults) : allResults[i]
    [] type = "any" ->
         Len(allResults) > 0 /\ \E i \in 1..Len(allResults) : allResults[i]
    [] type = "none" ->
         Len(allResults) > 0 /\ \A i \in 1..Len(allResults) : ~allResults[i]
    [] OTHER -> FALSE

\* `rules = []`, `nested = []`: the default applies to undefined only
OrEmpty(list) == IF list.kind = "undefined" THEN <<>> ELSE list.val

RECURSIVE evaluateConditions(_, _)
evaluateConditions(conds, state) ==
  IF conds.kind = "undefined" THEN Throw
  ELSE
    LET rs == OrEmpty(conds.rules)
        ns == OrEmpty(conds.nested)
        ruleResults == [i \in 1..Len(rs) |-> evaluateConditionRule(rs[i], state)]
        nestedResults == [i \in 1..Len(ns) |-> evaluateConditions(ns[i], state)]
        all == ruleResults \o nestedResults
    IN IF \E i \in 1..Len(all) : all[i].threw THEN Throw
       ELSE Return(Combine(conds.type, [i \in 1..Len(all) |-> all[i].value]))

\* evaluateRule without its try/catch
evaluateRuleNoCatch(rule, state) == evaluateConditions(rule.conditions, state)

evaluateRule(rule, state) ==
  LET done == evaluateConditions(rule.conditions, state)
  IN IF done.threw THEN Return(FALSE) ELSE done

\* rule.priority ?? 0
Priority(rule) ==
  IF rule.priority.kind \in {"undefined", "null"} THEN 0 ELSE rule.priority.val

\* a comparator that sorts the lowest priority first
ComparePriorityAscending(a, b) == Priority(a) - Priority(b)

\* the comparator (a, b) => (b.priority ?? 0) - (a.priority ?? 0)
ComparePriority(a, b) == Priority(b) - Priority(a)

\* Array.prototype.sort is stable: x goes behind every element the
\* comparator does not place after it
RECURSIVE InsertSorted(_, _, _)
InsertSorted(rs, sorted, x) ==
  IF sorted = <<>> THEN <<x>>
  ELSE IF ComparePriority(rs[Head(sorted)], rs[x]) <= 0
    THEN <<Head(sorted)>> \o InsertSorted(rs, Tail(sorted), x)
    ELSE <<x>> \o sorted

\* the indexes of rs in the order the sort leaves them
RECURSIVE SortFrom(_, _, _)
SortFrom(rs, i, sorted) ==
  IF i > Len(rs) THEN sorted
  ELSE SortFrom(rs, i + 1, InsertSorted(rs, sorted, i))

sortedRules(rs) == SortFrom(rs, 1, <<>>)

\* the caller's array had rules.sort(...) sorted the array itself
SortInPlace(rs) == [i \in 1..Len(rs) |-> rs[sortedRules(rs)[i]]]

\* the caller's array after evaluateRules: `[...rules]` sorts a copy
CallerArrayAfterSort(rs) == rs

\* evaluateRules: the filter keeps the sorted rules evaluateRule accepts
evaluateRules(rs, state) ==
  LET outcome == [i \in 1..Len(rs) |-> evaluateRule(rs[i], state)]
      Keep(i) == outcome[i].value
  IN IF \E i \in 1..Len(rs) : outcome[i].threw THEN Throw
     ELSE Return(SelectSeq(sortedRules(rs), Keep))

\* collecting into an array with push instead of a Set
ArrayPush(ids, id) == Append(ids, id)

\* actionIds.add(actionId) on a Set, which keeps insertion order
SetAdd(ids, id) ==
  IF \E i \in 1..Len(ids) : ids[i] = id THEN ids ELSE Append(ids, id)

\* rule.actions.forEach(actionId => actionIds.add(actionId))
RECURSIVE AddAll(_, _, _)
AddAll(ids, actions, i) ==
  IF i > Len(actions) THEN ids
  ELSE AddAll(SetAdd(ids, actions[i]), actions, i + 1)

\* matchingRules.forEach(rule => ...)
RECURSIVE CollectActions(_, _, _, _)
CollectActions(rs, matching, k, ids) ==
  IF k > Len(matching) THEN ids
  ELSE CollectActions(rs, matching, k + 1,
                      AddAll(ids, rs[matching[k]].actions, 1))

getTriggeredActions(rs, state) ==
  LET matchingRules == evaluateRules(rs, state)
  IN IF matchingRules.threw THEN Throw
     ELSE Return(CollectActions(rs, matchingRules.value, 1, <<>>))

(***************************************************************************)
(* ContentPackLoader                                                       *)
(***************************************************************************)
Digits == {"0", "1", "2", "3", "4", "5", "6", "7", "8", "9"}

\* \d+ from position i: the position after the digits matched there
RECURSIVE AfterDigits(_, _)
AfterDigits(s, i) ==
  IF i <= Len(s) /\ s[i] \in Digits THEN AfterDigits(s, i + 1) ELSE i

\* the regex accepting any text that starts with a digit
versionRegexTestLoose(s) == AfterDigits(s, 1) > 1

\* /^\d+\.\d+\.\d+$/.test(s)
versionRegexTest(s) ==
  LET a == AfterDigits(s, 1)
      b == AfterDigits(s, a + 1)
      c == AfterDigits(s, b + 1)
  IN /\ a > 1
     /\ a <= Len(s) /\ s[a] = "."
     /\ b > a + 1
     /\ b <= Len(s) /\ s[b] = "."
     /\ c > b + 1
     /\ c = Len(s) + 1

\* the forEach of checkDuplicateIds: the ids seen twice, in order
RECURSIVE Duplicates(_, _, _)
Duplicates(items, i, ids) ==
  IF i > Len(items) THEN <<>>
  ELSE (IF items[i].id \in ids THEN <<items[i].id>> ELSE <<>>)
         \o Duplicates(items, i + 1, ids \cup {items[i].id})

checkDuplicateIds(items) ==
  IF Len(Duplicates(items, 1, {})) > 0 THEN Throw ELSE Return(Undefined)

\* `pack.questions ?? []`
NullishOrEmpty(list) ==
  IF list.kind \in {"undefined", "null"} THEN <<>> ELSE list.val

validateContentPack(pack) ==
  IF ~Truthy(pack.id) THEN Throw
  ELSE IF ~Truthy(pack.name) THEN Throw
  ELSE IF ~Truthy(pack.version) THEN Throw
  ELSE IF ~Truthy(pack.jurisdiction) THEN Throw
  ELSE IF ~versionRegexTest(pack.version.val) THEN Throw
  ELSE IF checkDuplicateIds(NullishOrEmpty(pack.questions)).threw THEN Throw
  ELSE IF checkDuplicateIds(NullishOrEmpty(pack.rules)).threw THEN Throw
  ELSE IF checkDuplicateIds(NullishOrEmpty(pack.actions)).threw THEN Throw
  ELSE checkDuplicateIds(NullishOrEmpty(pack.services))

Entry(k, v) == [key |-> k, value |-> v]

MapHas(map, k) == \E i \in 1..Len(map) : map[i].key = k

\* a set that leaves an entry already there as it is
MapSetIfAbsent(map, k, v) ==
  IF MapHas(map, k) THEN map ELSE Append(map, Entry(k, v))

\* Map.prototype.set: a new key goes last, a known key keeps its place
MapSet(map, k, v) ==
  IF MapHas(map, k)
    THEN [i \in 1..Len(map) |-> IF map[i].key = k THEN Entry(k, v) ELSE map[i]]
    ELSE Append(map, Entry(k, v))

\* Map.prototype.get
MapGet(map, k) ==
  IF MapHas(map, k)
    THEN map[CHOOSE i \in 1..Len(map) : map[i].key = k].value
    ELSE Undefined

\* a delete that drops every entry
MapDeleteAll(map, k) == <<>>

\* Map.prototype.delete
MapDelete(map, k) ==
  LET Other(e) == e.key # k
  IN SelectSeq(map, Other)

\* a loadContentPack that registers the pack before validating it
loadContentPackSetFirst(map, pack) ==
  [threw |-> validateContentPack(pack).threw,
   loadedPacks |-> IF pack.id.kind = "string"
                     THEN MapSet(map, pack.id.val, pack) ELSE map]

\* loadContentPack: validation throws before the Map is touched
loadContentPack(map, pack) ==
  IF validateContentPack(pack).threw
    THEN [threw |-> TRUE, loadedPacks |-> map]
    ELSE [threw |-> FALSE, loadedPacks |-> MapSet(map, pack.id.val, pack)]

getContentPack(map, id) == MapGet(map, id)

\* Array.from(this.loadedPacks.values())
getAllContentPacks(map) == [i \in 1..Len(map) |-> map[i].value]

removeContentPack(map, id) ==
  [returned |-> Bool(MapHas(map, id)), loadedPacks |-> MapDelete(map, id)]

clearAll(map) == <<>>

(***************************************************************************)
(* Inputs of the evaluator                                                 *)
(***************************************************************************)
\* largest number of nodes (groups and atomic conditions) of a condition tree
MaxNodes == 4

LogicalOperators == {"all", "any", "none"}

ConditionOperators ==
  {"equals", "notEquals", "greaterThan", "lessThan", "greaterThanOrEqual",
   "lessThanOrEqual", "contains", "notContains", "in", "notIn", "exists",
   "notExists"}

ConditionRule(f, o, v) == [field |-> f, operator |-> o, value |-> v]

\* a list field that is empty may also be left out of the JSON
ListField(list) == IF list = <<>> THEN {Undefined, Arr(<<>>)} ELSE {Arr(list)}

Group(t, rs, ns) == [kind |-> "object", type |-> t, rules |-> rs, nested |-> ns]

SituationOptions ==
  {Undefined, Null, Obj(EmptyObject),
   Obj([homelessTonight |-> Bool(TRUE)]),
   Obj([homelessTonight |-> Bool(FALSE)]),
   Obj([homelessTonight |-> Null])}

UserOptions ==
  {Undefined,
   Obj([age |-> Num(17)]),
   Obj([age |-> Num(30), tags |-> Arr(<<Str(<<"a", "b">>), Num(17)>>)]),
   Obj([age |-> Str(<<"1", "7">>)])}

\* a key that has no value is not in the state object at all
SessionStateOf(situation, user) ==
  LET given == [situation |-> situation, user |-> user]
  IN Obj([k \in {g \in DOMAIN given : given[g].kind # "undefined"} |-> given[k]])

SessionStates ==
  {SessionStateOf(s, u) : s \in SituationOptions, u \in UserOptions}

Fields ==
  {Str(<<"situation", ".", "homelessTonight">>),
   Str(<<"situation">>),
   Str(<<"user", ".", "age">>),
   Str(<<"user", ".", "tags">>),
   Str(<<"user", ".", "tags", ".", "length">>),
   Str(<<"user", ".", "age", ".", "years">>),
   Str(<<"situation", ".", "constructor">>),
   Str(<<"home", "less">>),
   Str(<<>>),
   Undefined}

RuleValues ==
  {Undefined, Null, Bool(TRUE), Num(17), Num(18), Str(<<"a">>), Str(<<"7">>),
   Str(<<"1", "7">>), Arr(<<Num(17), Str(<<"a", "b">>)>>)}

\* every atomic condition, including one with an operator the engine lacks
ConditionRules ==
  {ConditionRule(f, o, v) :
     f \in Fields, o \in ConditionOperators \cup {"matches"}, v \in RuleValues}

\* groups holding a single atomic condition
SingleRuleGroups ==
  {Group(t, Arr(<<c>>), n) :
     t \in LogicalOperators, c \in ConditionRules, n \in {Undefined}}

TreeRules ==
  {ConditionRule(Str(<<"situation", ".", "homelessTonight">>), "equals", Bool(TRUE)),
   ConditionRule(Str(<<"user", ".", "age">>), "lessThan", Num(18))}

RECURSIVE SeqsOfLen(_, _)
SeqsOfLen(S, n) ==
  IF n = 0 THEN {<<>>}
  ELSE {<<x>> \o rest : x \in S, rest \in SeqsOfLen(S, n - 1)}

SeqsUpTo(S, n) == UNION {SeqsOfLen(S, k) : k \in 0..n}

RECURSIVE NodeCount(_)
NodeCount(g) ==
  LET rs == OrEmpty(g.rules)
      ns == OrEmpty(g.nested)
      RECURSIVE Sum(_)
      Sum(i) == IF i > Len(ns) THEN 0 ELSE NodeCount(ns[i]) + Sum(i + 1)
  IN 1 + Len(rs) + Sum(1)

\* a group's nested field: left out of the JSON when there is none
NestedField(ns) == IF ns = <<>> THEN Undefined ELSE Arr(ns)

RECURSIVE Groups(_)
RECURSIVE NestedLists(_)
\* the condition groups of at most n nodes
Groups(n) ==
  IF n < 1 THEN {}
  ELSE UNION {
         {Group(t, Arr(rs), NestedField(ns)) :
            t \in LogicalOperators,
            rs \in SeqsOfLen(TreeRules, k),
            ns \in NestedLists(n - 1 - k)} :
         k \in 0..(n - 1)}

\* the lists of groups of at most b nodes together
NestedLists(b) ==
  {<<>>} \cup UNION {
    {<<g>> \o rest : rest \in NestedLists(b - NodeCount(g))} : g \in Groups(b)}

\* groups with no rules and no nested groups, each list empty or left out
EmptyGroups ==
  {Group(t, rf, nf) :
     t \in LogicalOperators, rf \in ListField(<<>>), nf \in ListField(<<>>)}

ConditionTrees == Groups(MaxNodes) \cup EmptyGroups

NotEvaluated == [threw |-> FALSE, value |-> FALSE]

\* no WorkflowEngine has been constructed
InitNoWorkflow ==
  /\ workflow = Undefined
  /\ session = Undefined
  /\ priorSession = Undefined
  /\ submitted = Undefined
  /\ submission = Undefined

\* no loadContentPackFromUrl call is overlapping another
InitNoOverlap ==
  /\ urlCalls = <<>>
  /\ urlCall = 0

InitExecutor ==
  /\ executorOp = "none"
  /\ executorArg = Undefined
  /\ executorResult = Undefined
  /\ urlPc = "idle"
  /\ fetches = 0
  /\ response = Undefined
  /\ InitNoWorkflow
  /\ InitNoOverlap

InitRules ==
  /\ InitExecutor
  /\ rules = <<>>
  /\ calls = <<>>
  /\ matched = <<>>
  /\ triggered = <<>>
  /\ raised = FALSE

InitLoader ==
  /\ loadedPacks = <<>>
  /\ before = <<>>
  /\ packData = Undefined
  /\ packId = ""
  /\ op = "none"
  /\ threw = FALSE
  /\ returned = Undefined

InitEval ==
  /\ sessionState \in SessionStates
  /\ conditions \in SingleRuleGroups \cup ConditionTrees \cup {Undefined}
  /\ evaluated = FALSE
  /\ result = NotEvaluated
  /\ InitRules
  /\ InitLoader

\* evaluateRule(rule, sessionState) on a rule with these conditions
EvaluateRule ==
  /\ ~evaluated
  /\ evaluated' = TRUE
  /\ result' = evaluateRule([conditions |-> conditions], sessionState)
  /\ UNCHANGED <<sessionState, conditions>>
  /\ UNCHANGED rulesVars
  /\ UNCHANGED loaderVars
  /\ UNCHANGED executorVars
  /\ UNCHANGED urlVars
  /\ UNCHANGED workflowVars
  /\ UNCHANGED overlapVars

NextEval == EvaluateRule

SpecEval == InitEval /\ [][NextEval]_vars

(***************************************************************************)
(* Rule lists                                                              *)
(***************************************************************************)
\* longest rule list handed to evaluateRules
MaxRuleCount == 3

RightRule(p, c, a) == [priority |-> p, conditions |-> c, actions |-> a]

Priorities == {Undefined, Num(10), Num(50), Num(100)}

HomelessTonight ==
  Group("all",
        Arr(<<ConditionRule(Str(<<"situation", ".", "homelessTonight">>),
                            "equals", Bool(TRUE))>>),
        Undefined)

Minor ==
  Group("any",
        Arr(<<ConditionRule(Str(<<"user", ".", "age">>), "lessThan", Num(18))>>),
        Undefined)

\* a condition whose field is not a string: path.split throws
FieldNotAString ==
  Group("all", Arr(<<ConditionRule(Num(1), "equals", Bool(TRUE))>>), Undefined)

\* rules by condition tree and action list; a rule may lack its conditions
RuleUniverse ==
  {RightRule(p, HomelessTonight, <<"emergency_housing", "legal_advice">>) :
     p \in Priorities}
  \cup {RightRule(p, Minor, <<"legal_advice", "childrens_services", "legal_advice">>) :
     p \in {Num(0), Num(50)}}
  \cup {RightRule(Num(50), Undefined, <<"broken">>),
        RightRule(Undefined, FieldNotAString, <<"broken">>)}

RuleLists == SeqsUpTo(RuleUniverse, MaxRuleCount)

RuleStates ==
  {SessionStateOf(Obj([homelessTonight |-> Bool(TRUE)]), Obj([age |-> Num(17)])),
   SessionStateOf(Obj([homelessTonight |-> Bool(TRUE)]), Obj([age |-> Num(30)])),
   SessionStateOf(Undefined, Obj([age |-> Num(17)]))}

InitRuleLists ==
  /\ rules \in RuleLists
  /\ sessionState \in RuleStates
  /\ calls = <<>>
  /\ matched = <<>>
  /\ triggered = <<>>
  /\ raised = FALSE
  /\ conditions = Undefined
  /\ evaluated = FALSE
  /\ result = NotEvaluated
  /\ InitLoader
  /\ InitExecutor

\* the last two calls, newest last
Window(op_) == IF calls = <<>> THEN <<op_>> ELSE <<calls[Len(calls)], op_>>

\* evaluateRules(rules, sessionState)
EvaluateRules ==
  \E done \in {evaluateRules(rules, sessionState)} :
    /\ calls' = Window("evaluateRules")
    /\ raised' = done.threw
    /\ matched' = IF done.threw THEN matched ELSE done.value
    /\ rules' = CallerArrayAfterSort(rules)
    /\ UNCHANGED <<triggered, sessionState, conditions, evaluated, result>>
    /\ UNCHANGED loaderVars
    /\ UNCHANGED executorVars
    /\ UNCHANGED urlVars
    /\ UNCHANGED workflowVars
    /\ UNCHANGED overlapVars

\* getTriggeredActions(rules, sessionState), which runs evaluateRules first
GetTriggeredActions ==
  \E inner \in {evaluateRules(rules, sessionState)},
     done \in {getTriggeredActions(rules, sessionState)} :
    /\ calls' = Window("getTriggeredActions")
    /\ raised' = done.threw
    /\ matched' = IF inner.threw THEN matched ELSE inner.value
    /\ triggered' = IF done.threw THEN triggered ELSE done.value
    /\ rules' = CallerArrayAfterSort(rules)
    /\ UNCHANGED <<sessionState, conditions, evaluated, result>>
    /\ UNCHANGED loaderVars
    /\ UNCHANGED executorVars
    /\ UNCHANGED urlVars
    /\ UNCHANGED workflowVars
    /\ UNCHANGED overlapVars

NextRules == EvaluateRules \/ GetTriggeredActions

SpecRules == InitRuleLists /\ [][NextRules]_vars

(***************************************************************************)
(* Content packs                                                           *)
(***************************************************************************)
\* longest questions, rules, actions or services list of a pack
MaxItems == 2

\* how many of a pack's four collections differ from the usual one
MaxVaried == 2

Item(id) == [id |-> id]

ContentPack(id, name, version, jurisdiction, qs, rs, as, ss) ==
  [id |-> id, name |-> name, version |-> version, jurisdiction |-> jurisdiction,
   questions |-> qs, rules |-> rs, actions |-> as, services |-> ss]

IdValues == {Undefined, Str(""), Str("uk")}
NameValues == {Undefined, Str(""), Str("UK Housing")}
JurisdictionValues == {Undefined, Str(""), Str("England")}

VersionValues ==
  {Undefined,
   Str(<<>>),
   Str(<<"1", ".", "0", ".", "0">>),
   Str(<<"1", "2", ".", "0", ".", "3", "4">>),
   Str(<<"1", ".", "0">>),
   Str(<<"1", ".", "0", ".", "0", ".", "0">>),
   Str(<<"v", "1", ".", "0", ".", "0">>),
   Str(<<"1", ".", "0", ".", "0", "-", "beta">>),
   Str(<<"1", ".", "0", ".", "0", "\n">>),
   Str(<<"1", ".", ".", "0">>),
   Str(<<"1", ".", "0", ".">>),
   Str(<<"1", "x", "0", "x", "0">>)}

\* every collection of a pack holds the item a1 unless it is varied
UsualCollection == Arr(<<Item("a1")>>)

CollectionValues ==
  {Undefined} \cup {Arr(l) : l \in SeqsUpTo({Item("a1"), Item("b2")}, MaxItems)}

CollectionTuples ==
  {t \in [1..4 -> CollectionValues] :
     Cardinality({c \in 1..4 : t[c] # UsualCollection}) <= MaxVaried}

\* packs varied in their required fields, and packs varied in their collections
ValidationPacks ==
  {ContentPack(i, n, v, j, UsualCollection, UsualCollection, as, UsualCollection) :
     i \in IdValues, n \in NameValues, v \in VersionValues,
     j \in JurisdictionValues,
     as \in {UsualCollection, Arr(<<Item("a1"), Item("a1")>>)}}
  \cup
  {ContentPack(Str("uk"), Str("UK Housing"), Str(<<"1", ".", "0", ".", "0">>),
               Str("England"), t[1], t[2], t[3], t[4]) :
     t \in CollectionTuples}

PackIds == {"uk", "us"}

\* a pack whose rule r6 names ghost, the id of none of its actions, and
\* whose entryPoint q0 is the id of none of its questions
DanglingPack ==
  ContentPack(Str("uk"), Str("Housing 6"), Str(<<"6", ".", "0", ".", "0">>),
              Str("England"), Arr(<<Item("q1")>>),
              Arr(<<[id |-> "r6", actions |-> <<"a1", "ghost">>]>>),
              Arr(<<Item("a1")>>), Undefined)
    @@ [entryPoint |-> "q0"]

\* two valid packs per id, packs that fail validation and DanglingPack
LoaderPacks ==
  {ContentPack(Str(id), Str("Housing"), Str(<<"1", ".", "0", ".", "0">>),
               Str("England"), Arr(<<Item("q1")>>), Arr(<<Item("r1")>>),
               Arr(<<Item("a1")>>), Undefined) : id \in PackIds}
  \cup
  {ContentPack(Str(id), Str("Housing 2"), Str(<<"2", ".", "0", ".", "0">>),
               Str("Wales"), Undefined, Arr(<<Item("r1"), Item("r2")>>),
               Arr(<<Item("a1"), Item("b2")>>), Arr(<<Item("a1")>>)) : id \in PackIds}
  \cup
  {ContentPack(Str(id), Str("Housing 3"), Str(<<"3", ".", "0", ".", "0">>),
               Str("England"), Arr(<<Item("q9")>>), Arr(<<Item("r9")>>),
               Arr(<<Item("a1"), Item("a1")>>), Arr(<<Item("s9")>>)) : id \in PackIds}
  \cup
  {ContentPack(Str("uk"), Str("Housing 4"), Str(<<"1", ".", "0">>),
               Str("England"), Undefined, Arr(<<Item("r4")>>), Undefined, Undefined),
   ContentPack(Undefined, Str("Housing 5"), Str(<<"1", ".", "0", ".", "0">>),
               Str("England"), Undefined, Arr(<<Item("r5")>>), Undefined, Undefined),
   DanglingPack}

InitNoEvaluation ==
  /\ sessionState = Obj(EmptyObject)
  /\ conditions = Undefined
  /\ evaluated = FALSE
  /\ result = NotEvaluated
  /\ InitRules

\* loadContentPack(pack)
LoadContentPack(pack) ==
  \E done \in {loadContentPack(loadedPacks, pack)} :
    /\ op' = "loadContentPack"
    /\ packData' = pack
    /\ before' = loadedPacks
    /\ threw' = done.threw
    /\ loadedPacks' = done.loadedPacks
    /\ returned' = Undefined
    /\ UNCHANGED packId
    /\ UNCHANGED evalVars
    /\ UNCHANGED rulesVars
    /\ UNCHANGED executorVars
    /\ UNCHANGED urlVars
    /\ UNCHANGED workflowVars
    /\ UNCHANGED overlapVars

\* removeContentPack(id)
RemoveContentPack(id) ==
  \E done \in {removeContentPack(loadedPacks, id)} :
    /\ op' = "removeContentPack"
    /\ packId' = id
    /\ before' = loadedPacks
    /\ threw' = FALSE
    /\ loadedPacks' = done.loadedPacks
    /\ returned' = done.returned
    /\ UNCHANGED packData
    /\ UNCHANGED evalVars
    /\ UNCHANGED rulesVars
    /\ UNCHANGED executorVars
    /\ UNCHANGED urlVars
    /\ UNCHANGED workflowVars
    /\ UNCHANGED overlapVars

ClearAll ==
  /\ op' = "clearAll"
  /\ before' = loadedPacks
  /\ threw' = FALSE
  /\ loadedPacks' = clearAll(loadedPacks)
  /\ returned' = Undefined
  /\ UNCHANGED <<packData, packId>>
  /\ UNCHANGED evalVars
  /\ UNCHANGED rulesVars
  /\ UNCHANGED executorVars
  /\ UNCHANGED urlVars
  /\ UNCHANGED workflowVars
  /\ UNCHANGED overlapVars

\* getContentPack(id)
GetContentPack(id) ==
  /\ op' = "getContentPack"
  /\ packId' = id
  /\ before' = loadedPacks
  /\ threw' = FALSE
  /\ returned' = getContentPack(loadedPacks, id)
  /\ UNCHANGED <<loadedPacks, packData>>
  /\ UNCHANGED evalVars
  /\ UNCHANGED rulesVars
  /\ UNCHANGED executorVars
  /\ UNCHANGED urlVars
  /\ UNCHANGED workflowVars
  /\ UNCHANGED overlapVars

GetAllContentPacks ==
  /\ op' = "getAllContentPacks"
  /\ before' = loadedPacks
  /\ threw' = FALSE
  /\ returned' = Arr(getAllContentPacks(loadedPacks))
  /\ UNCHANGED <<loadedPacks, packData, packId>>
  /\ UNCHANGED evalVars
  /\ UNCHANGED rulesVars
  /\ UNCHANGED executorVars
  /\ UNCHANGED urlVars
  /\ UNCHANGED workflowVars
  /\ UNCHANGED overlapVars

\* one loadContentPack call on a fresh loader
InitValidate ==
  /\ InitNoEvaluation
  /\ loadedPacks = <<>>
  /\ before = <<>>
  /\ packData \in ValidationPacks
  /\ packId = ""
  /\ op = "none"
  /\ threw = FALSE
  /\ returned = Undefined

NextValidate == op = "none" /\ LoadContentPack(packData)

SpecValidate == InitValidate /\ [][NextValidate]_vars

\* any sequence of loader operations
InitLoaderCalls == InitNoEvaluation /\ InitLoader

NextLoader ==
  \/ \E pack \in LoaderPacks : LoadContentPack(pack)
  \/ \E id \in PackIds : RemoveContentPack(id)
  \/ ClearAll
  \/ \E id \in PackIds : GetContentPack(id)
  \/ GetAllContentPacks

SpecLoader == InitLoaderCalls /\ [][NextLoader]_vars

(***************************************************************************)
(* ActionExecutor (src/src/config/index.ts)                                *)
(*                                                                         *)
(* Text is a sequence of pieces; a required-information tag is the         *)
(* sequence of its characters, because hasRequiredInfo looks inside it.    *)
(***************************************************************************)
UpperCase == <<"A", "B", "C", "D", "E", "F", "G", "H", "I", "J", "K", "L", "M",
               "N", "O", "P", "Q", "R", "S", "T", "U", "V", "W", "X", "Y", "Z">>
LowerCase == <<"a", "b", "c", "d", "e", "f", "g", "h", "i", "j", "k", "l", "m",
               "n", "o", "p", "q", "r", "s", "t", "u", "v", "w", "x", "y", "z">>

\* String.prototype.toLowerCase
toLowerCase(s) ==
  [i \in 1..Len(s) |->
     IF \E k \in 1..26 : UpperCase[k] = s[i]
     THEN LowerCase[CHOOSE k \in 1..26 : UpperCase[k] = s[i]]
     ELSE s[i]]

\* value?.key: undefined when value is undefined or null or lacks the key
OptionalGet(v, key) ==
  IF v.kind = "object" /\ key \in DOMAIN v.val THEN v.val[key] ELSE Undefined

\* hasRequiredInfo: keyword tests on the lower-cased tag, first hit decides
hasRequiredInfo(info, state) ==
  LET infoLower == toLowerCase(info)
      situation == OptionalGet(state, "situation")
      user == OptionalGet(state, "user")
      contact == OptionalGet(user, "contact")
  IN IF StringIncludes(infoLower, <<"l", "o", "c", "a", "t", "i", "o", "n">>)
       THEN Truthy(OptionalGet(situation, "currentLocation"))
     ELSE IF StringIncludes(infoLower, <<"a", "g", "e">>)
       THEN Truthy(OptionalGet(user, "age"))
     ELSE IF \/ StringIncludes(infoLower, <<"c", "h", "i", "l", "d", "r", "e", "n">>)
             \/ StringIncludes(infoLower,
                               <<"d", "e", "p", "e", "n", "d", "e", "n", "t", "s">>)
       THEN OptionalGet(user, "hasChildren").kind # "undefined"
     ELSE IF StringIncludes(infoLower, <<"n", "a", "m", "e">>)
       THEN /\ Truthy(OptionalGet(user, "firstName"))
            /\ Truthy(OptionalGet(user, "lastName"))
     ELSE IF StringIncludes(infoLower, <<"c", "o", "n", "t", "a", "c", "t">>)
       THEN \/ Truthy(OptionalGet(contact, "phone"))
            \/ Truthy(OptionalGet(contact, "email"))
     ELSE TRUE

\* sessionState.completedActions?.map(a => a.actionId) ?? [], as a Set
completedActionIds(state) ==
  LET completed == OptionalGet(state, "completedActions")
  IN IF completed.kind = "array"
     THEN {completed.val[i].actionId : i \in 1..Len(completed.val)}
     ELSE {}

\* the tags of requiredInformation that hasRequiredInfo rejects, in order
RECURSIVE MissingTags(_, _)
MissingTags(infos, state) ==
  IF infos = <<>> THEN <<>>
  ELSE (IF hasRequiredInfo(Head(infos), state) THEN <<>> ELSE <<Head(infos)>>)
       \o MissingTags(Tail(infos), state)

\* `Prerequisite action: ${prereqId}` for every prerequisite not completed
RECURSIVE MissingPrerequisites(_, _)
MissingPrerequisites(prereqs, done) ==
  IF prereqs = <<>> THEN <<>>
  ELSE (IF Head(prereqs) \in done THEN <<>>
        ELSE <<<<"Prerequisite action: ", Head(prereqs)>>>>)
       \o MissingPrerequisites(Tail(prereqs), done)

\* a preparation that does not look at the prerequisites
prepareActionTagsOnly(action, state) ==
  LET missingInformation ==
        IF Truthy(action.requiredInformation)
        THEN MissingTags(action.requiredInformation.val, state) ELSE <<>>
  IN [action |-> action,
      missingInformation |-> missingInformation,
      canExecute |-> Len(missingInformation) = 0]

prepareAction(action, state) ==
  LET tags == IF Truthy(action.requiredInformation)
              THEN MissingTags(action.requiredInformation.val, state) ELSE <<>>
      prereqs == IF /\ Truthy(action.prerequisites)
                    /\ Len(action.prerequisites.val) > 0
                 THEN MissingPrerequisites(action.prerequisites.val,
                                           completedActionIds(state))
                 ELSE <<>>
      missingInformation == tags \o prereqs
  IN [action |-> action,
      missingInformation |-> missingInformation,
      canExecute |-> Len(missingInformation) = 0]

\* Array.prototype.join
RECURSIVE join(_, _)
join(texts, separator) ==
  IF texts = <<>> THEN <<>>
  ELSE IF Len(texts) = 1 THEN Head(texts)
  ELSE Head(texts) \o <<separator>> \o join(Tail(texts), separator)

ActionExecutionResult(actionId, status, message, timestamp) ==
  [actionId |-> actionId, status |-> status, message |-> message,
   timestamp |-> timestamp]

\* an execution that completes every action that can execute
executeActionNoUrgency(action, state, now) ==
  LET prepared == prepareAction(action, state)
  IN IF ~prepared.canExecute
     THEN ActionExecutionResult(action.id, "pending",
            <<"Missing required information: ">>
              \o join(prepared.missingInformation, ", "), now)
     ELSE ActionExecutionResult(action.id, "completed",
            <<"Action executed successfully">>, now)

\* executeAction; now is what new Date().toISOString() gives
executeAction(action, state, now) ==
  LET prepared == prepareAction(action, state)
  IN IF ~prepared.canExecute
     THEN ActionExecutionResult(action.id, "pending",
            <<"Missing required information: ">>
              \o join(prepared.missingInformation, ", "), now)
     ELSE IF action.urgency = Str("critical") \/ action.urgency = Str("high")
     THEN ActionExecutionResult(action.id, "pending",
            <<"Action prepared for execution. Follow the steps provided.">>, now)
     ELSE ActionExecutionResult(action.id, "completed",
            <<"Action executed successfully">>, now)

\* Array.prototype.sort with the comparator (a, b) => key[a] - key[b]; the
\* sort is stable: x goes behind every element not placed after it
RECURSIVE InsertByKey(_, _, _)
InsertByKey(key, sorted, x) ==
  IF sorted = <<>> THEN <<x>>
  ELSE IF key[Head(sorted)] - key[x] <= 0
    THEN <<Head(sorted)>> \o InsertByKey(key, Tail(sorted), x)
    ELSE <<x>> \o sorted

RECURSIVE SortByKeyFrom(_, _, _)
SortByKeyFrom(key, i, sorted) ==
  IF i > Len(key) THEN sorted
  ELSE SortByKeyFrom(key, i + 1, InsertByKey(key, sorted, i))

\* the indexes of key in the order the sort leaves them
SortByKey(key) == SortByKeyFrom(key, 1, <<>>)

\* an order that puts an action without urgency behind the low ones
urgencyOrderAbsentLast(action) ==
  CASE action.urgency = Str("critical") -> 0
    [] action.urgency = Str("high") -> 1
    [] action.urgency = Str("medium") -> 2
    [] action.urgency = Str("low") -> 3
    [] OTHER -> 4

\* urgencyOrder[action.urgency ?? 'medium']
urgencyOrder(action) ==
  CASE action.urgency = Str("critical") -> 0
    [] action.urgency = Str("high") -> 1
    [] action.urgency = Str("low") -> 3
    [] OTHER -> 2

\* the indexes of actions in the order of sortedActions
sortedActions(actions) ==
  SortByKey([i \in 1..Len(actions) |-> urgencyOrder(actions[i])])

\* the caller's list had executeActions sorted the list itself
SortActionsInPlace(actions) ==
  [i \in 1..Len(actions) |-> actions[sortedActions(actions)[i]]]

\* the caller's list after executeActions: `[...actions]` sorts a copy
CallerActionsAfterSort(actions) == actions

\* the session state with one more completed action
withCompleted(state, id) ==
  LET completed == OptionalGet(state, "completedActions")
      sofar == IF completed.kind = "array" THEN completed.val ELSE <<>>
  IN Obj([k \in DOMAIN state.val \cup {"completedActions"} |->
            IF k = "completedActions" THEN Arr(Append(sofar, [actionId |-> id]))
            ELSE state.val[k]])

\* the actions executed in this order, each completed one recorded in the
\* state the next one is checked against
RECURSIVE executeInTurn(_, _, _, _)
executeInTurn(actions, order, state, now) ==
  IF order = <<>> THEN <<>>
  ELSE LET done == executeAction(actions[Head(order)], state, now)
           next == IF done.status = "completed"
                   THEN withCompleted(state, done.actionId) ELSE state
       IN <<done>> \o executeInTurn(actions, Tail(order), next, now)

\* an executeActions that records what it completes as it goes
executeActionsRecording(actions, state, now) ==
  executeInTurn(actions, sortedActions(actions), state, now)

executeActions(actions, state, now) ==
  [i \in 1..Len(actions) |->
     executeAction(actions[sortedActions(actions)[i]], state, now)]

\* getNextSteps: the nextActions of the first outcome with that id
getNextSteps(action, outcomeId) ==
  LET outcomes == IF action.outcomes.kind = "array" THEN action.outcomes.val
                  ELSE <<>>
      found == {i \in 1..Len(outcomes) : outcomes[i].id = outcomeId}
      first == CHOOSE i \in found : \A j \in found : i <= j
  IN IF found = {} THEN <<>>
     ELSE IF outcomes[first].nextActions.kind = "array"
       THEN outcomes[first].nextActions.val
     ELSE <<>>

Digit == <<"0", "1", "2", "3", "4", "5", "6", "7", "8", "9">>

\* `${n}` for an integer n
RECURSIVE NumberToString(_)
NumberToString(n) ==
  IF n < 0 THEN <<"-">> \o NumberToString(0 - n)
  ELSE IF n < 10 THEN <<Digit[n + 1]>>
  ELSE NumberToString(n \div 10) \o <<Digit[(n % 10) + 1]>>

\* String.prototype.repeat
RECURSIVE repeat(_, _)
repeat(text, count) ==
  IF count <= 0 THEN <<>> ELSE <<text>> \o repeat(text, count - 1)

\* String.prototype.toUpperCase on an urgency
toUpperCase(urgency) ==
  CASE urgency = "critical" -> "CRITICAL"
    [] urgency = "high" -> "HIGH"
    [] urgency = "medium" -> "MEDIUM"
    [] urgency = "low" -> "LOW"
    [] OTHER -> urgency

\* `   - ${f.label ?? f.name}${f.required ? ' (required)' : ''}`
FieldText(f) ==
  <<"   - ", IF f.label.kind \in {"undefined", "null"} THEN f.name
             ELSE f.label.val>>
  \o (IF Truthy(f.required) THEN <<" (required)">> ELSE <<>>)

\* the text of one step, with its input fields when it asks for input
StepText(step) ==
  NumberToString(step.order) \o <<". ", step.instruction>>
  \o (IF Truthy(step.requiresInput) /\ Truthy(step.inputFields)
      THEN <<"\n">>
           \o join([i \in 1..Len(step.inputFields.val) |->
                      FieldText(step.inputFields.val[i])], "\n")
      ELSE <<>>)

\* steps left in the order they were given
stepsAsGiven(steps) == steps

\* action.steps.sort((a, b) => a.order - b.order): the array itself, sorted
sortedSteps(steps) ==
  LET at == SortByKey([i \in 1..Len(steps) |-> steps[i].order])
  IN [i \in 1..Len(steps) |-> steps[at[i]]]

ContactText(contactInfo) ==
  <<"\nContact Information:\n">>
  \o (IF Truthy(contactInfo.phone)
      THEN <<"  Phone: ", contactInfo.phone.val, "\n">> ELSE <<>>)
  \o (IF Truthy(contactInfo.email)
      THEN <<"  Email: ", contactInfo.email.val, "\n">> ELSE <<>>)
  \o (IF Truthy(contactInfo.website)
      THEN <<"  Website: ", contactInfo.website.val, "\n">> ELSE <<>>)
  \o (IF Truthy(contactInfo.hoursOfOperation)
      THEN <<"  Hours: ", contactInfo.hoursOfOperation.val, "\n">> ELSE <<>>)

\* formatActionSteps: the text returned, and the action as the call leaves it
formatActionSteps(action) ==
  IF ~Truthy(action.steps) \/ Len(action.steps.val) = 0
  THEN [returned |-> IF action.description.kind \in {"undefined", "null"}
                     THEN <<"No steps available">>
                     ELSE <<action.description.val>>,
        action |-> action]
  ELSE LET inOrder == sortedSteps(action.steps.val)
           steps == join([i \in 1..Len(inOrder) |-> StepText(inOrder[i])], "\n\n")
       IN [returned |->
             <<action.name, "\n">>
             \o repeat("=", Len(action.name)) \o <<"\n\n">>
             \o (IF Truthy(action.description)
                 THEN <<action.description.val, "\n\n">> ELSE <<>>)
             \o (IF Truthy(action.urgency)
                 THEN <<"Urgency: ", toUpperCase(action.urgency.val), "\n\n">>
                 ELSE <<>>)
             \o <<"Steps:\n">> \o steps \o <<"\n">>
             \o (IF Truthy(action.estimatedDuration)
                 THEN <<"\nEstimated Duration: ", action.estimatedDuration.val, "\n">>
                 ELSE <<>>)
             \o (IF Truthy(action.contactInfo)
                 THEN ContactText(action.contactInfo) ELSE <<>>),
           action |-> [action EXCEPT !.steps = Arr(inOrder)]]

(***************************************************************************)
(* ContentPackLoader: what a loaded pack holds                             *)
(***************************************************************************)
\* getRules: pack?.rules ?? []
getRules(map, id) ==
  LET pack == getContentPack(map, id)
  IN IF pack = Undefined THEN <<>> ELSE NullishOrEmpty(pack.rules)

\* getActions: pack?.actions ?? []
getActions(map, id) ==
  LET pack == getContentPack(map, id)
  IN IF pack = Undefined THEN <<>> ELSE NullishOrEmpty(pack.actions)

\* a lookup that raises when no action has the id
getActionOrThrow(map, id, actionId) ==
  LET actions == getActions(map, id)
      found == {i \in 1..Len(actions) : actions[i].id = actionId}
  IN IF found = {} THEN Throw
     ELSE Return(actions[CHOOSE i \in found : \A j \in found : i <= j])

\* getAction: actions.find(action => action.id === actionId)
getAction(map, id, actionId) ==
  LET actions == getActions(map, id)
      found == {i \in 1..Len(actions) : actions[i].id = actionId}
  IN IF found = {} THEN Return(Undefined)
     ELSE Return(actions[CHOOSE i \in found : \A j \in found : i <= j])

(***************************************************************************)
(* A loaded pack in use: its rules evaluated, its actions prepared,        *)
(* executed and formatted                                                  *)
(***************************************************************************)
\* longest actions list of the pack in use
MaxActions == 2

ActionStep(order, instruction, requiresInput, inputFields) ==
  [order |-> order, instruction |-> instruction,
   requiresInput |-> requiresInput, inputFields |-> inputFields]

ActionInputField(name, label, required) ==
  [name |-> name, label |-> label, required |-> required]

ActionOutcome(id, nextActions) == [id |-> id, nextActions |-> nextActions]

\* what an action asks for, apart from its id and urgency
WalkIn ==
  [description |-> Undefined,
   steps |-> Arr(<<ActionStep(2, "Ask for the duty officer", Undefined, Undefined),
                   ActionStep(1, "Go to the council office", Undefined, Undefined)>>),
   requiredInformation |-> Undefined,
   prerequisites |-> Undefined,
   outcomes |-> Undefined,
   estimatedDuration |-> Undefined,
   contactInfo |-> Undefined]

Application ==
  [description |-> Str("Apply as homeless"),
   steps |-> Arr(<<ActionStep(1, "Fill in the form", Bool(TRUE),
                     Arr(<<ActionInputField("dob", Str("Date of birth"), Bool(TRUE)),
                           ActionInputField("phone", Undefined, Undefined)>>)),
                   ActionStep(2, "Hand it in", Bool(FALSE), Undefined),
                   ActionStep(1, "Keep a copy", Undefined, Undefined)>>),
   requiredInformation |-> Arr(<<<<"A", "g", "e">>,
                                 <<"i", "n", "c", "o", "m", "e">>>>),
   prerequisites |-> Arr(<<>>),
   outcomes |-> Arr(<<ActionOutcome("accepted", Arr(<<"b2">>)),
                      ActionOutcome("refused", Undefined),
                      ActionOutcome("accepted", Arr(<<"zz">>))>>),
   estimatedDuration |-> Str("30 minutes"),
   contactInfo |-> [kind |-> "object", phone |-> Str("0800"),
                    email |-> Undefined, website |-> Str(""),
                    hoursOfOperation |-> Str("9-5")]]

Referral ==
  [description |-> Str("Referral to legal aid"),
   steps |-> Undefined,
   requiredInformation |-> Arr(<<<<"l", "o", "c", "a", "t", "i", "o", "n">>,
                                 <<"l", "a", "n", "g", "u", "a", "g", "e">>>>),
   prerequisites |-> Arr(<<"a1", "zz">>),
   outcomes |-> Arr(<<>>),
   estimatedDuration |-> Undefined,
   contactInfo |-> Undefined]

FollowUp ==
  [description |-> Undefined,
   steps |-> Arr(<<ActionStep(1, "Call back", Undefined, Undefined),
                   ActionStep(2, "Confirm the outcome", Undefined, Undefined)>>),
   requiredInformation |-> Arr(<<>>),
   prerequisites |-> Arr(<<"b2">>),
   outcomes |-> Undefined,
   estimatedDuration |-> Undefined,
   contactInfo |-> Undefined]

\* an action by urgency and by what it asks for; its id comes with its place
ActionVariants ==
  {<<Str("critical"), WalkIn>>, <<Undefined, WalkIn>>, <<Str("low"), Referral>>,
   <<Str("medium"), Application>>, <<Str("high"), FollowUp>>}

ActionIds == <<"a1", "b2", "c3", "d4">>

ActionTemplate(id, variant) ==
  [id |-> id, name |-> "Housing", urgency |-> variant[1],
   description |-> variant[2].description, steps |-> variant[2].steps,
   requiredInformation |-> variant[2].requiredInformation,
   prerequisites |-> variant[2].prerequisites,
   outcomes |-> variant[2].outcomes,
   estimatedDuration |-> variant[2].estimatedDuration,
   contactInfo |-> variant[2].contactInfo]

ActionListOf(variants) ==
  [i \in 1..Len(variants) |-> ActionTemplate(ActionIds[i], variants[i])]

\* the urgencies low, critical, medium, high in that order
UrgencyExample ==
  <<<<Str("low"), WalkIn>>, <<Str("critical"), WalkIn>>,
    <<Str("medium"), WalkIn>>, <<Str("high"), WalkIn>>>>

ActionLists ==
  {ActionListOf(v) : v \in SeqsUpTo(ActionVariants, MaxActions)}
  \cup {ActionListOf(UrgencyExample)}

PackRule(id, p, c, a) ==
  [id |-> id, priority |-> p, conditions |-> c, actions |-> a]

\* rules of the pack; ghost is the id of no action
PackRuleLists ==
  {<<PackRule("r1", Num(10), HomelessTonight, <<"a1", "ghost">>)>>,
   <<PackRule("r1", Undefined, Minor, <<"b2">>),
     PackRule("r2", Num(50), HomelessTonight, <<"a1", "b2">>)>>}

PackInUse(rs, as) ==
  ContentPack(Str("uk"), Str("Housing"), Str(<<"1", ".", "0", ".", "0">>),
              Str("England"), Undefined, Arr(rs), Arr(as), Undefined)

ExecutorStateOf(situation, user, completedActions) ==
  LET given == [situation |-> situation, user |-> user,
                completedActions |-> completedActions]
  IN Obj([k \in {g \in DOMAIN given : given[g].kind # "undefined"} |-> given[k]])

CompletedAction(id) == [actionId |-> id]

ExecutorStates ==
  {ExecutorStateOf(Undefined, Undefined, Undefined),
   ExecutorStateOf(Obj([currentLocation |-> Str("street"),
                        homelessTonight |-> Bool(TRUE)]),
                   Obj([age |-> Num(30), hasChildren |-> Bool(FALSE)]),
                   Arr(<<CompletedAction("a1"), CompletedAction("zz")>>)),
   ExecutorStateOf(Obj([homelessTonight |-> Bool(TRUE)]),
                   Obj([age |-> Num(0)]),
                   Arr(<<CompletedAction("b2")>>)),
   ExecutorStateOf(Obj([currentLocation |-> Str("")]),
                   Obj([age |-> Num(17)]),
                   Arr(<<CompletedAction("a1")>>))}

\* what new Date().toISOString() may give
Clock == {"2024-01-01T09:00:00.000Z", "2024-01-01T09:00:00.001Z"}

OutcomeIds == {"accepted", "withdrawn"}

\* the pack uk, one of packs, is loaded and nothing else has been called
InitLoaded(packs) ==
  /\ packData \in packs
  /\ loadedPacks = loadContentPack(<<>>, packData).loadedPacks
  /\ before = <<>>
  /\ packId = "uk"
  /\ op = "loadContentPack"
  /\ threw = FALSE
  /\ returned = Undefined
  /\ sessionState \in ExecutorStates
  /\ conditions = Undefined
  /\ evaluated = FALSE
  /\ result = NotEvaluated
  /\ InitRules

\* the pack's rules array is the object rs after the call
ReplaceRules(map, id, rs) ==
  [i \in 1..Len(map) |->
     IF map[i].key = id THEN [map[i] EXCEPT !.value.rules = Arr(rs)] ELSE map[i]]

\* the pack's actions array is the object as after the call
ReplaceActions(map, id, as) ==
  [i \in 1..Len(map) |->
     IF map[i].key = id THEN [map[i] EXCEPT !.value.actions = Arr(as)] ELSE map[i]]

\* the call made, what it was given and what it returned
Called(name, arg, value) ==
  /\ executorOp' = name
  /\ executorArg' = arg
  /\ executorResult' = value
  /\ UNCHANGED <<before, packData, packId, op, threw, returned>>
  /\ UNCHANGED evalVars
  /\ UNCHANGED rulesVars
  /\ UNCHANGED urlVars
  /\ UNCHANGED workflowVars
  /\ UNCHANGED overlapVars

\* evaluateRules(getRules('uk'), sessionState)
EvaluatePackRules ==
  \E rs \in {getRules(loadedPacks, "uk")} :
    /\ Called("evaluateRules", Arr(rs), evaluateRules(rs, sessionState))
    /\ loadedPacks' = ReplaceRules(loadedPacks, "uk", CallerArrayAfterSort(rs))

\* getTriggeredActions(getRules('uk'), sessionState)
TriggeredActionsOfPack ==
  \E rs \in {getRules(loadedPacks, "uk")} :
    /\ Called("getTriggeredActions", Arr(rs), getTriggeredActions(rs, sessionState))
    /\ loadedPacks' = ReplaceRules(loadedPacks, "uk", CallerArrayAfterSort(rs))

\* getAction(id, actionId)
GetAction(id, actionId) ==
  /\ Called("getAction", <<id, actionId>>, getAction(loadedPacks, id, actionId))
  /\ UNCHANGED loadedPacks

\* prepareAction(getActions('uk')[i], sessionState)
PrepareAction(i) ==
  \E action \in {getActions(loadedPacks, "uk")[i]} :
    /\ Called("prepareAction", action, prepareAction(action, sessionState))
    /\ UNCHANGED loadedPacks

\* executeAction(getActions('uk')[i], sessionState)
ExecuteAction(i, now) ==
  \E action \in {getActions(loadedPacks, "uk")[i]} :
    /\ Called("executeAction", action, executeAction(action, sessionState, now))
    /\ UNCHANGED loadedPacks

\* executeActions(getActions('uk'), sessionState)
ExecuteActions(now) ==
  \E as \in {getActions(loadedPacks, "uk")} :
    /\ Called("executeActions", Arr(as), executeActions(as, sessionState, now))
    /\ loadedPacks' = ReplaceActions(loadedPacks, "uk", CallerActionsAfterSort(as))

\* getNextSteps(getActions('uk')[i], outcomeId)
GetNextSteps(i, outcomeId) ==
  \E action \in {getActions(loadedPacks, "uk")[i]} :
    /\ Called("getNextSteps", <<action, outcomeId>>, getNextSteps(action, outcomeId))
    /\ UNCHANGED loadedPacks

\* formatActionSteps(getActions('uk')[i]); the action is the pack's own object
FormatActionSteps(i) ==
  \E as \in {getActions(loadedPacks, "uk")} :
    \E done \in {formatActionSteps(as[i])} :
      /\ Called("formatActionSteps", as[i], done.returned)
      /\ loadedPacks' =
           ReplaceActions(loadedPacks, "uk", [as EXCEPT ![i] = done.action])

\* the actions of the pack in use, when the rules are to be evaluated too
PackActionLists ==
  {ActionListOf(v) :
     v \in SeqsUpTo({<<Str("critical"), WalkIn>>, <<Str("low"), Referral>>},
                    MaxActions)}

InitPackInUse ==
  InitLoaded({PackInUse(rs, as) : rs \in PackRuleLists, as \in PackActionLists})

NextPackInUse ==
  \/ EvaluatePackRules
  \/ TriggeredActionsOfPack
  \/ \E id \in PackIds, actionId \in {"a1", "ghost"} : GetAction(id, actionId)
  \/ \E i \in 1..Len(getActions(loadedPacks, "uk")) : PrepareAction(i)
  \/ \E i \in 1..Len(getActions(loadedPacks, "uk")), now \in Clock :
       ExecuteAction(i, now)
  \/ \E now \in Clock : ExecuteActions(now)
  \/ \E i \in 1..Len(getActions(loadedPacks, "uk")), outcomeId \in OutcomeIds :
       GetNextSteps(i, outcomeId)
  \/ \E i \in 1..Len(getActions(loadedPacks, "uk")) : FormatActionSteps(i)

SpecPackInUse == InitPackInUse /\ [][NextPackInUse]_vars

\* one ActionExecutor call on an action, or on the actions, of a loaded pack
InitExecutorCall ==
  InitLoaded({PackInUse(<<PackRule("r1", Num(10), HomelessTonight, <<"a1">>)>>, as) :
                as \in ActionLists})

\* no ActionExecutor call has been made yet
FirstCall == executorOp = "none"

NextExecutorCall ==
  \/ FirstCall /\ EvaluatePackRules
  \/ FirstCall /\ TriggeredActionsOfPack
  \/ FirstCall /\ \E i \in 1..Len(getActions(loadedPacks, "uk")) : PrepareAction(i)
  \/ FirstCall /\ \E i \in 1..Len(getActions(loadedPacks, "uk")), now \in Clock :
                    ExecuteAction(i, now)
  \/ FirstCall /\ \E now \in Clock : ExecuteActions(now)
  \/ FirstCall /\ \E i \in 1..Len(getActions(loadedPacks, "uk")),
                      outcomeId \in OutcomeIds : GetNextSteps(i, outcomeId)
  \/ FirstCall /\ \E i \in 1..Len(getActions(loadedPacks, "uk")) :
                    FormatActionSteps(i)

SpecExecutorCall == InitExecutorCall /\ [][NextExecutorCall]_vars

(***************************************************************************)
(* ContentPackLoader.loadContentPackFromUrl                                *)
(*                                                                         *)
(* The call runs up to its first await, and again after each await         *)
(* settles; other loader calls may run while it waits.  One call is in     *)
(* flight at a time.                                                       *)
(***************************************************************************)
\* a body that is not JSON text
NotJson == [kind |-> "notJson"]

\* a Response: response.ok, and what the text of its body parses to
Response(ok, body) == [ok |-> ok, body |-> body]

\* what a body may parse to: a pack, valid or not, or null
ParsedBodies == LoaderPacks \cup {Null}

Responses == {Response(ok, body) : ok \in BOOLEAN, body \in ParsedBodies \cup {NotJson}}

\* if (!response.ok) throw
checkOk(r) == IF ~r.ok THEN Throw ELSE Return(r)

\* registering what was parsed before validating it
loadParsedSetFirst(map, data) ==
  IF data = Null THEN [threw |-> TRUE, loadedPacks |-> map]
  ELSE loadContentPackSetFirst(map, data)

\* this.loadContentPack(packData) on whatever the body parsed to; reading
\* the id of null throws
loadParsed(map, data) ==
  IF data = Null THEN [threw |-> TRUE, loadedPacks |-> map]
  ELSE loadContentPack(map, data)

\* a step of the call in flight
UrlStep(pc, failed, value) ==
  /\ op' = "loadContentPackFromUrl"
  /\ before' = loadedPacks
  /\ urlPc' = pc
  /\ threw' = failed
  /\ returned' = value
  /\ UNCHANGED packId
  /\ UNCHANGED evalVars
  /\ UNCHANGED rulesVars
  /\ UNCHANGED executorVars
  /\ UNCHANGED workflowVars
  /\ UNCHANGED overlapVars

\* loadContentPackFromUrl(url) up to `await fetch(url)`
StartUrlLoad ==
  /\ urlPc \in {"idle", "resolved", "rejected"}
  /\ UrlStep("fetch", FALSE, Undefined)
  /\ fetches' = 1
  /\ response' = Undefined
  /\ UNCHANGED <<loadedPacks, packData>>

\* fetch rejects: the catch block logs and rethrows
FetchRejects ==
  /\ urlPc = "fetch"
  /\ UrlStep("rejected", TRUE, Undefined)
  /\ UNCHANGED <<loadedPacks, packData, fetches, response>>

\* fetch resolves with r: rethrow if it is not ok, else `await response.json()`
FetchResolves(r) ==
  /\ urlPc = "fetch"
  /\ UrlStep(IF checkOk(r).threw THEN "rejected" ELSE "json", checkOk(r).threw,
             Undefined)
  /\ response' = r
  /\ UNCHANGED <<loadedPacks, packData, fetches>>

\* response.json() rejects: the body is not JSON, or reading it failed
JsonRejects ==
  /\ urlPc = "json"
  /\ UrlStep("rejected", TRUE, Undefined)
  /\ UNCHANGED <<loadedPacks, packData, fetches, response>>

\* response.json() resolves: loadContentPack(packData), then return packData
JsonResolves ==
  /\ urlPc = "json"
  /\ response.body # NotJson
  /\ \E done \in {loadParsed(loadedPacks, response.body)} :
       /\ UrlStep(IF done.threw THEN "rejected" ELSE "resolved", done.threw,
                  IF done.threw THEN Undefined ELSE response.body)
       /\ loadedPacks' = done.loadedPacks
  /\ packData' = response.body
  /\ UNCHANGED <<fetches, response>>

InitUrlLoads == InitNoEvaluation /\ InitLoader

NextUrlLoads ==
  \/ StartUrlLoad
  \/ FetchRejects
  \/ \E r \in Responses : FetchResolves(r)
  \/ JsonRejects
  \/ JsonResolves
  \/ \E pack \in LoaderPacks : LoadContentPack(pack)
  \/ ClearAll

SpecUrlLoads == InitUrlLoads /\ [][NextUrlLoads]_vars

(***************************************************************************)
(* Rule resolution                                                         *)
(***************************************************************************)
\* a missing priority counts as 0
PriorityOrZero(r) == IF r.priority = Undefined THEN 0 ELSE r.priority.val

\* the rule's root condition group evaluates true
RootTrue(r, state) == evaluateConditions(r.conditions, state) = Return(TRUE)

\* evaluating the rule's condition tree raises
RootThrows(r, state) == evaluateConditions(r.conditions, state).threw

\* the rules a list of indexes names
RulesAt(rs, idx) == [k \in 1..Len(idx) |-> rs[idx[k]]]

\* C3: evaluateRules returns exactly the input rules whose root condition
\* group evaluates true, each once, by descending priority with a missing
\* priority counted as 0 and equal priorities in input order.
C3_MatchedInPriorityOrder ==
  calls # <<>> =>
    /\ ~raised
    /\ {matched[k] : k \in 1..Len(matched)}
         = {i \in 1..Len(rules) : RootTrue(rules[i], sessionState)}
    /\ \A j, k \in 1..Len(matched) :
         j < k =>
           \/ PriorityOrZero(rules[matched[j]]) > PriorityOrZero(rules[matched[k]])
           \/ /\ PriorityOrZero(rules[matched[j]]) = PriorityOrZero(rules[matched[k]])
              /\ matched[j] < matched[k]

\* matching rules with priorities 10, 100, 50 come back as 100, 50, 10
C3_Witness ==
  /\ calls # <<>>
  /\ Len(rules) = 3
  /\ rules[1].priority = Num(10)
  /\ rules[2].priority = Num(100)
  /\ rules[3].priority = Num(50)
  /\ matched = <<2, 3, 1>>

RECURSIVE FlatActions(_, _, _)
FlatActions(rs, idx, k) ==
  IF k > Len(idx) THEN <<>>
  ELSE rs[idx[k]].actions \o FlatActions(rs, idx, k + 1)

FirstPosition(list, id) ==
  CHOOSE i \in 1..Len(list) :
    list[i] = id /\ \A j \in 1..(i - 1) : list[j] # id

\* C5: getTriggeredActions returns each action id at most once, exactly the
\* ids listed by the rules evaluateRules returns, ordered by first
\* occurrence when walking the matched rules in priority order.
C5_TriggeredActions ==
  (calls # <<>> /\ calls[Len(calls)] = "getTriggeredActions") =>
    LET flat == FlatActions(rules, matched, 1)
    IN /\ ~raised
       /\ \A j, k \in 1..Len(triggered) : j # k => triggered[j] # triggered[k]
       /\ {triggered[k] : k \in 1..Len(triggered)} = {flat[k] : k \in 1..Len(flat)}
       /\ \A j, k \in 1..Len(triggered) :
            j < k => FirstPosition(flat, triggered[j]) < FirstPosition(flat, triggered[k])

\* two matched rules share an action id, which is returned once
C5_Witness ==
  /\ calls # <<>> /\ calls[Len(calls)] = "getTriggeredActions"
  /\ Len(matched) = 2
  /\ rules[matched[1]].conditions = Minor
  /\ rules[matched[2]].conditions = HomelessTonight
  /\ triggered = <<"legal_advice", "childrens_services", "emergency_housing">>

RemoveAt(list, i) == SubSeq(list, 1, i - 1) \o SubSeq(list, i + 1, Len(list))

\* C6: a rule whose condition tree raises does not make evaluateRules raise;
\* the result is what evaluateRules returns for the list without that rule.
C6_FailingRuleIsolated ==
  calls # <<>> =>
    /\ ~raised
    /\ \A i \in 1..Len(rules) :
         RootThrows(rules[i], sessionState) =>
           LET others == RemoveAt(rules, i)
               expected == evaluateRules(others, sessionState)
           IN /\ \A k \in 1..Len(matched) : matched[k] # i
              /\ ~expected.threw
              /\ RulesAt(rules, matched) = RulesAt(others, expected.value)

\* a list with a rule lacking its conditions between two matching rules
C6_Witness ==
  /\ calls # <<>>
  /\ Len(rules) = 3
  /\ rules[2].conditions = Undefined
  /\ matched = <<3, 1>>

(***************************************************************************)
(* Condition groups and field paths                                        *)
(***************************************************************************)
\* the completions of a group's direct rules, then of its nested groups
GroupEntries(g, state) ==
  LET rs == OrEmpty(g.rules)
      ns == OrEmpty(g.nested)
  IN [i \in 1..(Len(rs) + Len(ns)) |->
        IF i <= Len(rs) THEN evaluateConditionRule(rs[i], state)
        ELSE evaluateConditions(ns[i - Len(rs)], state)]

TrueCount(entries) ==
  Cardinality({i \in 1..Len(entries) : entries[i].value})

\* C1: a group's result is decided by the number of true entries among the
\* results of its direct rules and nested groups: all needs every entry of a
\* non-empty list true, any needs at least one, none needs a non-empty list
\* with no true entry; a group with no entries is false for all three types.
C1_GroupCombination ==
  (evaluated /\ conditions.kind = "object"
     /\ \A i \in DOMAIN GroupEntries(conditions, sessionState) :
          ~GroupEntries(conditions, sessionState)[i].threw)
  => LET entries == GroupEntries(conditions, sessionState)
         n == Len(entries)
         k == TrueCount(entries)
     IN /\ ~result.threw
        /\ conditions.type = "all" => (result.value <=> (n > 0 /\ k = n))
        /\ conditions.type = "any" => (result.value <=> (n > 0 /\ k >= 1))
        /\ conditions.type = "none" => (result.value <=> (n > 0 /\ k = 0))
        /\ n = 0 => ~result.value

\* a `none` group over a direct rule and a nested group, all false, is true
C1_Witness ==
  /\ evaluated
  /\ conditions.kind = "object"
  /\ conditions.type = "none"
  /\ Len(OrEmpty(conditions.rules)) = 1
  /\ Len(OrEmpty(conditions.nested)) = 1
  /\ result = Return(TRUE)

\* the number of leading segments found as data of the session state
RECURSIVE OwnDepth(_, _, _)
OwnDepth(parts, i, value) ==
  IF i > Len(parts) THEN 0
  ELSE IF value.kind = "object" /\ parts[i] \in DOMAIN value.val
    THEN 1 + OwnDepth(parts, i + 1, value.val[parts[i]])
  ELSE IF value.kind = "array" /\ \E j \in 1..Len(value.val) : IndexName[j] = parts[i]
    THEN 1 + OwnDepth(parts, i + 1,
                      value.val[CHOOSE j \in 1..Len(value.val) : IndexName[j] = parts[i]])
  ELSE 0

\* the value the data holds after the first d segments
RECURSIVE OwnValue(_, _, _)
OwnValue(parts, d, value) ==
  IF d = 0 THEN value
  ELSE OwnValue(Tail(parts), d - 1, GetProperty(value, Head(parts)))

\* some segment of the path is missing from the session state
MissingSegment(path, state) ==
  OwnDepth(split(path), 1, state) < Len(split(path))

\* the first missing segment names a property that the value reached has
\* without the data giving it: an inherited one, or an array's length
BuiltInSegment(path, state) ==
  LET parts == split(path)
      d == OwnDepth(parts, 1, state)
      at == OwnValue(parts, d, state)
  IN /\ d < Len(parts)
     /\ at.kind \in {"object", "array"}
     /\ \/ parts[d + 1] \in ObjectPrototypeKeys
        \/ at.kind = "array" /\ parts[d + 1] = "length"

\* the single atomic condition of the group under evaluation
OnlyRule == conditions.rules.val[1]

HasOnlyRule ==
  /\ conditions.kind = "object"
  /\ conditions.rules.kind = "array"
  /\ Len(conditions.rules.val) = 1
  /\ Len(OrEmpty(conditions.nested)) = 0
  /\ OnlyRule.field.kind = "string"

\* C2 as stated: with a segment of the path missing from the session state,
\* evaluateRule does not throw, the field resolves to the absent value, and
\* an equals condition is false whatever the rule compares against.
C2_MissingPathAsStated ==
  (evaluated /\ HasOnlyRule /\ MissingSegment(OnlyRule.field.val, sessionState))
  => /\ ~result.threw
     /\ getFieldValue(OnlyRule.field, sessionState) = Return(Undefined)
     /\ (OnlyRule.operator = "equals" /\ conditions.type = "all")
          => result = Return(FALSE)

\* C2 amended: with a segment of the path missing from the session state,
\* evaluateRule does not throw; the field resolves to the absent value unless
\* the missing segment names a built-in or inherited property of the value
\* reached; an equals condition on a path resolved to the absent value is
\* false when the rule gives a value and true when the rule gives none.
C2_MissingPath ==
  (evaluated /\ HasOnlyRule /\ MissingSegment(OnlyRule.field.val, sessionState))
  => /\ ~result.threw
     /\ ~BuiltInSegment(OnlyRule.field.val, sessionState)
          => getFieldValue(OnlyRule.field, sessionState) = Return(Undefined)
     /\ (/\ OnlyRule.operator = "equals"
         /\ conditions.type = "all"
         /\ getFieldValue(OnlyRule.field, sessionState) = Return(Undefined))
          => result = Return(OnlyRule.value.kind = "undefined")

\* situation.homelessTonight equals true, evaluated with situation absent
C2_Witness ==
  /\ evaluated
  /\ HasOnlyRule
  /\ conditions.type = "all"
  /\ OnlyRule = ConditionRule(Str(<<"situation", ".", "homelessTonight">>),
                              "equals", Bool(TRUE))
  /\ "situation" \notin DOMAIN sessionState.val
  /\ result = Return(FALSE)

(***************************************************************************)
(* Loading content packs                                                   *)
(***************************************************************************)
\* the field is there and is not the empty string
PresentNonEmpty(v) == v.kind = "string" /\ Len(v.val) # 0

\* exactly two dots, each between two non-empty runs of digits
ThreeDigitGroups(s) ==
  \E p, q \in 1..Len(s) :
    /\ 1 < p /\ p + 1 < q /\ q < Len(s)
    /\ \A i \in 1..Len(s) :
         IF i \in {p, q} THEN s[i] = "." ELSE s[i] \in Digits

\* no id occurs twice in the collection; a collection left out is empty
NoIdTwice(collection) ==
  collection.kind = "array" =>
    \A i, j \in 1..Len(collection.val) :
      i # j => collection.val[i].id # collection.val[j].id

Acceptable(pack) ==
  /\ PresentNonEmpty(pack.id)
  /\ PresentNonEmpty(pack.name)
  /\ PresentNonEmpty(pack.version)
  /\ PresentNonEmpty(pack.jurisdiction)
  /\ ThreeDigitGroups(pack.version.val)
  /\ NoIdTwice(pack.questions)
  /\ NoIdTwice(pack.rules)
  /\ NoIdTwice(pack.actions)
  /\ NoIdTwice(pack.services)

C8_FailedLoadChangesNothing ==
  (op = "loadContentPack" /\ ~Acceptable(packData)) =>
    /\ threw
    /\ loadedPacks = before
    /\ \A id \in PackIds :
         getContentPack(loadedPacks, id) = getContentPack(before, id)
    /\ \A i \in 1..Len(loadedPacks) : loadedPacks[i].value # packData

\* a pack with two actions a1 is rejected while uk and us are registered
C8_Witness ==
  /\ op = "loadContentPack"
  /\ threw
  /\ packData.id = Str("uk")
  /\ packData.actions = Arr(<<Item("a1"), Item("a1")>>)
  /\ Len(before) = 2
  /\ getContentPack(loadedPacks, "uk").name = Str("Housing")

\* C9: after a valid pack is loaded under an id that held another pack,
\* getContentPack returns the new pack whole and getAllContentPacks holds
\* exactly one pack with that id.
C9_LastLoadWins ==
  (op = "loadContentPack" /\ ~threw /\ MapHas(before, packData.id.val)) =>
    /\ getContentPack(loadedPacks, packData.id.val) = packData
    /\ \E i \in 1..Len(getAllContentPacks(loadedPacks)) :
         /\ getAllContentPacks(loadedPacks)[i] = packData
         /\ \A j \in 1..Len(getAllContentPacks(loadedPacks)) :
              getAllContentPacks(loadedPacks)[j].id = packData.id => j = i

\* Housing 2 loaded over Housing under the id uk
C9_Witness ==
  /\ op = "loadContentPack"
  /\ ~threw
  /\ packData.id = Str("uk")
  /\ packData.name = Str("Housing 2")
  /\ MapHas(before, "uk")
  /\ getContentPack(before, "uk").name = Str("Housing")
  /\ getContentPack(loadedPacks, "uk") = packData

\* C10 as stated: while a pack is registered under an id no operation, a
\* load of another pack with that id included, replaces it.
C10_ImmutableAsStated ==
  \A id \in PackIds :
    (MapHas(before, id) /\ MapHas(loadedPacks, id)) =>
      getContentPack(loadedPacks, id) = getContentPack(before, id)

\* C10 amended: a successful load of a pack replaces the pack registered
\* under its id; what is stored under an id changes only by a successful
\* loadContentPack of a pack with that id, by removeContentPack(id) or by
\* clearAll.
C10_ChangedOnlyByLoadRemoveClear ==
  /\ (op = "loadContentPack" /\ ~threw) =>
       getContentPack(loadedPacks, packData.id.val) = packData
  /\ \A id \in PackIds :
       getContentPack(loadedPacks, id) # getContentPack(before, id) =>
         \/ op = "loadContentPack" /\ ~threw /\ packData.id = Str(id)
         \/ op = "removeContentPack" /\ packId = id
         \/ op = "clearAll"

\* a load that replaced the pack registered under us, with uk untouched
C10_Witness ==
  /\ op = "loadContentPack"
  /\ packData.id = Str("us")
  /\ MapHas(before, "us")
  /\ MapHas(before, "uk")
  /\ getContentPack(loadedPacks, "us") # getContentPack(before, "us")
  /\ getContentPack(loadedPacks, "uk") = getContentPack(before, "uk")

(***************************************************************************)
(* Operators that cannot be applied                                        *)
(***************************************************************************)
\* the group under evaluation holds one atomic condition and nothing nested
HasOneRule ==
  /\ conditions.kind = "object"
  /\ conditions.rules.kind = "array"
  /\ Len(conditions.rules.val) = 1
  /\ Len(OrEmpty(conditions.nested)) = 0

\* C18: an atomic condition whose operator is none of the twelve defined
\* ones evaluates false whatever the field resolves to and whatever value
\* it compares against, and evaluateRule raises nothing.
C18_UnknownOperatorIsFalse ==
  (evaluated /\ HasOneRule /\ OnlyRule.operator \notin ConditionOperators) =>
    /\ ~result.threw
    /\ OnlyRule.field.kind = "string" =>
         evaluateConditionRule(OnlyRule, sessionState) = Return(FALSE)
    /\ conditions.type \in {"all", "any"} => result = Return(FALSE)

\* user.age matches 17 evaluated on a state where user.age is 17
C18_Witness ==
  /\ evaluated
  /\ HasOneRule
  /\ conditions.type = "all"
  /\ OnlyRule = ConditionRule(Str(<<"user", ".", "age">>), "matches", Num(17))
  /\ getFieldValue(OnlyRule.field, sessionState) = Return(Num(17))
  /\ result = Return(FALSE)

NumericOperators ==
  {"greaterThan", "lessThan", "greaterThanOrEqual", "lessThanOrEqual"}

\* the comparison of two integers an operator name stands for
NumericComparison(operator, a, b) ==
  CASE operator = "greaterThan" -> a > b
    [] operator = "lessThan" -> a < b
    [] operator = "greaterThanOrEqual" -> a >= b
    [] operator = "lessThanOrEqual" -> a <= b

\* the only condition of the group compares something that is not a number
NonNumericOperand ==
  \/ getFieldValue(OnlyRule.field, sessionState).value.kind # "number"
  \/ OnlyRule.value.kind # "number"

\* C19 as stated: a rule whose only atomic condition has an unknown operator,
\* or a numeric operator on a non-numeric operand, is never returned by
\* evaluateRules, whether its group is all, any or none.
C19_ErrorResolvesToNotMatched ==
  (/\ evaluated
   /\ HasOneRule
   /\ conditions.type \in LogicalOperators
   /\ \/ OnlyRule.operator \notin ConditionOperators
      \/ OnlyRule.operator \in NumericOperators /\ NonNumericOperand) =>
    /\ result = Return(FALSE)
    /\ evaluateRules(<<[priority |-> Undefined, conditions |-> conditions,
                        actions |-> <<>>]>>, sessionState) = Return(<<>>)

\* C20: the four ordering operators give the numeric comparison when the
\* resolved field value and the rule value are both numbers, and false,
\* raising nothing, when either is not a number.
C20_NumericOperators ==
  (/\ evaluated
   /\ HasOneRule
   /\ OnlyRule.field.kind = "string"
   /\ OnlyRule.operator \in NumericOperators) =>
    LET fieldValue == getFieldValue(OnlyRule.field, sessionState).value
        expected ==
          IF fieldValue.kind = "number" /\ OnlyRule.value.kind = "number"
          THEN NumericComparison(OnlyRule.operator, fieldValue.val,
                                 OnlyRule.value.val)
          ELSE FALSE
    IN /\ evaluateConditionRule(OnlyRule, sessionState) = Return(expected)
       /\ ~result.threw
       /\ conditions.type \in {"all", "any"} => result = Return(expected)
       /\ conditions.type = "none" => result = Return(~expected)

\* user.age, the string "17", is not less than or equal to 17
C20_Witness ==
  /\ evaluated
  /\ HasOneRule
  /\ conditions.type = "any"
  /\ OnlyRule = ConditionRule(Str(<<"user", ".", "age">>), "lessThanOrEqual",
                              Num(17))
  /\ getFieldValue(OnlyRule.field, sessionState) = Return(Str(<<"1", "7">>))
  /\ result = Return(FALSE)

(***************************************************************************)
(* Definitions are only read                                               *)
(***************************************************************************)
\* C11 as stated: whatever RuleEvaluator and ActionExecutor calls were made
\* on the rules and actions of the loaded pack, formatActionSteps among
\* them, getContentPack still returns the pack data as it was loaded, the
\* order of every steps list included.
C11_DefinitionsUnchanged ==
  getContentPack(loadedPacks, "uk") = packData

(***************************************************************************)
(* Preparing and executing actions                                         *)
(***************************************************************************)
\* the list a field holds, none when the field is absent
ListOf(field) == IF field.kind = "array" THEN field.val ELSE <<>>

\* some entry of state.completedActions has this actionId
Completed(id, state) ==
  /\ "completedActions" \in DOMAIN state.val
  /\ \E i \in 1..Len(state.val.completedActions.val) :
       state.val.completedActions.val[i].actionId = id

\* the elements of list, in order, that Keep does not hold of
Without(list, Keep(_)) ==
  LET Drop(x) == ~Keep(x) IN SelectSeq(list, Drop)

\* C12: prepareAction gives canExecute exactly when every required tag is
\* satisfied and every prerequisite is the actionId of a completed action;
\* missingInformation lists the unsatisfied tags, then the absent
\* prerequisites, each in definition order, and is empty iff canExecute.
C12_PrepareAction ==
  executorOp = "prepareAction" =>
    LET action == executorArg
        Satisfied(tag) == hasRequiredInfo(tag, sessionState)
        Done(id) == Completed(id, sessionState)
        tags == ListOf(action.requiredInformation)
        prereqs == ListOf(action.prerequisites)
        unsatisfied == Without(tags, Satisfied)
        absent == Without(prereqs, Done)
        missing == executorResult.missingInformation
    IN /\ executorResult.action = action
       /\ executorResult.canExecute <=>
            /\ \A i \in 1..Len(tags) : Satisfied(tags[i])
            /\ \A i \in 1..Len(prereqs) : Done(prereqs[i])
       /\ executorResult.canExecute <=> missing = <<>>
       /\ Len(missing) = Len(unsatisfied) + Len(absent)
       /\ \A i \in 1..Len(unsatisfied) : missing[i] = unsatisfied[i]
       /\ \A i \in 1..Len(absent) :
            missing[Len(unsatisfied) + i] = <<"Prerequisite action: ", absent[i]>>

\* location is unsatisfied and the prerequisite zz is not completed
C12_Witness ==
  /\ executorOp = "prepareAction"
  /\ executorArg.prerequisites = Arr(<<"a1", "zz">>)
  /\ ~executorResult.canExecute
  /\ executorResult.missingInformation =
       <<<<"l", "o", "c", "a", "t", "i", "o", "n">>, <<"Prerequisite action: ", "zz">>>>

\* every tag satisfied and every prerequisite completed
CanExecute(action, state) ==
  /\ \A i \in 1..Len(ListOf(action.requiredInformation)) :
       hasRequiredInfo(ListOf(action.requiredInformation)[i], state)
  /\ \A i \in 1..Len(ListOf(action.prerequisites)) :
       Completed(ListOf(action.prerequisites)[i], state)

\* C13: executeAction reports pending when the action cannot execute, else
\* pending when its urgency is critical or high, else completed; never
\* failed or skipped, and never completed for a critical or high action.
C13_ExecuteActionStatus ==
  executorOp = "executeAction" =>
    /\ executorResult.actionId = executorArg.id
    /\ executorResult.status =
         IF ~CanExecute(executorArg, sessionState) THEN "pending"
         ELSE IF executorArg.urgency \in {Str("critical"), Str("high")}
           THEN "pending"
         ELSE "completed"
    /\ executorResult.status \notin {"failed", "skipped"}
    /\ executorArg.urgency \in {Str("critical"), Str("high")} =>
         executorResult.status # "completed"

\* a critical action with nothing missing is left pending
C13_Witness ==
  /\ executorOp = "executeAction"
  /\ executorArg.urgency = Str("critical")
  /\ CanExecute(executorArg, sessionState)
  /\ executorResult.status = "pending"

\* critical < high < medium < low, an absent urgency ranked as medium
UrgencyRank(action) ==
  CASE action.urgency = Str("critical") -> 0
    [] action.urgency = Str("high") -> 1
    [] action.urgency = Str("medium") -> 2
    [] action.urgency = Undefined -> 2
    [] action.urgency = Str("low") -> 3

\* the place in the input of the action a result is about
InputPlace(actions, r) == CHOOSE i \in 1..Len(actions) : actions[i].id = r.actionId

\* C14: executeActions returns one result per input action, ordered by
\* urgency rank with actions of equal rank in input order, and leaves the
\* caller's list in the order it was given.
C14_ExecuteActionsOrder ==
  executorOp = "executeActions" =>
    LET actions == executorArg.val
        results == executorResult
    IN /\ Len(results) = Len(actions)
       /\ \A i \in 1..Len(actions) :
            Cardinality({k \in 1..Len(results) :
                           results[k].actionId = actions[i].id}) = 1
       /\ \A k \in 1..Len(results) :
            results[k].status =
              executeAction(actions[InputPlace(actions, results[k])],
                            sessionState, results[k].timestamp).status
       /\ \A k, l \in 1..Len(results) :
            k < l =>
              LET a == InputPlace(actions, results[k])
                  b == InputPlace(actions, results[l])
              IN \/ UrgencyRank(actions[a]) < UrgencyRank(actions[b])
                 \/ UrgencyRank(actions[a]) = UrgencyRank(actions[b]) /\ a < b
       /\ getActions(loadedPacks, "uk") = actions

\* low, critical, medium, high comes back as critical, high, medium, low
C14_Witness ==
  /\ executorOp = "executeActions"
  /\ executorArg = Arr(ActionListOf(UrgencyExample))
  /\ [k \in 1..4 |-> executorResult[k].actionId] = <<"b2", "d4", "c3", "a1">>
  /\ getActions(loadedPacks, "uk") = ActionListOf(UrgencyExample)

\* the places of steps in ascending order, equal orders in supplied order
InStepOrder(steps) ==
  CHOOSE at \in [1..Len(steps) -> 1..Len(steps)] :
    \A k, l \in 1..Len(steps) :
      k < l =>
        \/ steps[at[k]].order < steps[at[l]].order
        \/ steps[at[k]].order = steps[at[l]].order /\ at[k] < at[l]

\* C15: formatActionSteps renders the steps in ascending step.order,
\* whatever order they were supplied in, steps of equal order number in
\* their supplied order.
C15_StepsRenderedInOrder ==
  (executorOp = "formatActionSteps" /\ Len(ListOf(executorArg.steps)) > 0) =>
    LET steps == executorArg.steps.val
        at == InStepOrder(steps)
        rendered == join([k \in 1..Len(steps) |-> StepText(steps[at[k]])], "\n\n")
    IN StringIncludes(executorResult, <<"Steps:\n">> \o rendered \o <<"\n">>)

\* steps supplied as order 2, order 1 render with step 1 first
C15_Witness ==
  /\ executorOp = "formatActionSteps"
  /\ executorArg.steps = WalkIn.steps
  /\ StringIncludes(executorResult,
       <<"Steps:\n", "1", ". ", "Go to the council office", "\n\n",
         "2", ". ", "Ask for the duty officer", "\n">>)

(***************************************************************************)
(* Dangling action references                                              *)
(***************************************************************************)
\* no action of the pack loaded under id has this actionId
NoSuchAction(id, actionId) ==
  \/ ~MapHas(loadedPacks, id)
  \/ \A i \in 1..Len(ListOf(getContentPack(loadedPacks, id).actions)) :
       getContentPack(loadedPacks, id).actions.val[i].id # actionId

\* C17: a rule naming an action id the pack lacks matches as any other:
\* getTriggeredActions returns every id of a matching rule, and getAction
\* on an id no action has, or on a pack not loaded, returns undefined and
\* raises nothing.
C17_DanglingReference ==
  /\ executorOp = "getTriggeredActions" =>
       /\ ~executorResult.threw
       /\ \A i \in 1..Len(executorArg.val) :
            evaluateRule(executorArg.val[i], sessionState) = Return(TRUE) =>
              \A k \in 1..Len(executorArg.val[i].actions) :
                \E j \in 1..Len(executorResult.value) :
                  executorResult.value[j] = executorArg.val[i].actions[k]
  /\ executorOp = "getAction" =>
       /\ ~executorResult.threw
       /\ NoSuchAction(executorArg[1], executorArg[2]) =>
            executorResult = Return(Undefined)
       /\ ~NoSuchAction(executorArg[1], executorArg[2]) =>
            executorResult.value.id = executorArg[2]

\* the matching rule r1 names ghost, and getAction finds no such action
C17_Witness ==
  /\ executorOp = "getAction"
  /\ executorArg = <<"uk", "ghost">>
  /\ executorResult = Return(Undefined)
  /\ getRules(loadedPacks, "uk")[1].actions = <<"a1", "ghost">>
  /\ getTriggeredActions(getRules(loadedPacks, "uk"), sessionState)
       = Return(<<"a1", "ghost">>)

(***************************************************************************)
(* Loading a pack from a URL                                               *)
(***************************************************************************)
\* the last loader step was one of the loadContentPackFromUrl call
UrlCallActed == op = "loadContentPackFromUrl"

\* C16: loadContentPackFromUrl fetches once, then parses, validates and
\* registers.  When the fetch fails, the response is not OK, the body does
\* not parse or the pack fails validation, the promise rejects, the
\* repository is as the call found it and no second fetch is made; when
\* the promise resolves, the pack it resolves with is registered.
C16_UrlLoadAllOrNothing ==
  /\ fetches <= 1
  /\ urlPc # "idle" => fetches = 1
  /\ urlPc = "json" => response.ok
  /\ (UrlCallActed /\ urlPc \in {"fetch", "json", "rejected"}) =>
       loadedPacks = before
  /\ (UrlCallActed /\ urlPc = "rejected") => threw /\ returned = Undefined
  /\ urlPc = "resolved" =>
       /\ response.ok
       /\ response.body \notin {NotJson, Null}
       /\ Acceptable(response.body)
  /\ (UrlCallActed /\ urlPc = "resolved") =>
       /\ ~threw
       /\ returned = response.body
       /\ getContentPack(loadedPacks, returned.id.val) = returned

\* the body parsed to a pack of version 1.0: rejected, the packs stay
C16_Witness ==
  /\ UrlCallActed
  /\ urlPc = "rejected"
  /\ response # Undefined
  /\ response.ok
  /\ response.body \notin {NotJson, Null}
  /\ response.body.name = Str("Housing 4")
  /\ Len(loadedPacks) = 2
  /\ loadedPacks = before
  /\ fetches = 1

(***************************************************************************)
(* Containment, membership and existence operators                         *)
(***************************************************************************)
\* what the only condition's field resolves to
Resolved == getFieldValue(OnlyRule.field, sessionState).value

\* the only condition evaluated with another operator in its place
OnlyRuleWith(operator) ==
  evaluateConditionRule([OnlyRule EXCEPT !.operator = operator], sessionState)

\* v occurs in s as a run of consecutive characters
Substring(s, v) ==
  \E start \in 1..(Len(s) + 1) :
    /\ start + Len(v) - 1 <= Len(s)
    /\ SubSeq(s, start, start + Len(v) - 1) = v

\* some element of list is the value v
Member(list, v) == \E i \in 1..Len(list) : StrictEquals(list[i], v)

\* C21: contains is a substring test on two strings, a membership test on a
\* sequence field value and false otherwise; notContains is its exact
\* negation for every field value and rule value.
C21_ContainsAndNotContains ==
  (/\ evaluated
   /\ HasOneRule
   /\ OnlyRule.field.kind = "string"
   /\ OnlyRule.operator \in {"contains", "notContains"}) =>
    LET expected ==
          IF Resolved.kind = "string" /\ OnlyRule.value.kind = "string"
            THEN Substring(Resolved.val, OnlyRule.value.val)
          ELSE IF Resolved.kind = "array"
            THEN Member(Resolved.val, OnlyRule.value)
          ELSE FALSE
    IN /\ OnlyRuleWith("contains") = Return(expected)
       /\ OnlyRuleWith("notContains") = Return(~expected)
       /\ conditions.type = "all" =>
            result = Return(IF OnlyRule.operator = "contains" THEN expected
                            ELSE ~expected)

\* user.tags holds "ab" and 17 and does not contain 18
C21_Witness ==
  /\ evaluated
  /\ HasOneRule
  /\ conditions.type = "all"
  /\ OnlyRule = ConditionRule(Str(<<"user", ".", "tags">>), "notContains", Num(18))
  /\ Resolved.kind = "array"
  /\ result = Return(TRUE)

\* C22: with a sequence as rule value, in is membership of the field value
\* and notIn its negation; with any other rule value both are false.
C22_InAndNotIn ==
  (/\ evaluated
   /\ HasOneRule
   /\ OnlyRule.field.kind = "string"
   /\ OnlyRule.operator \in {"in", "notIn"}) =>
    /\ OnlyRule.value.kind = "array" =>
         /\ OnlyRuleWith("in") = Return(Member(OnlyRule.value.val, Resolved))
         /\ OnlyRuleWith("notIn") = Return(~Member(OnlyRule.value.val, Resolved))
    /\ OnlyRule.value.kind # "array" =>
         /\ OnlyRuleWith("in") = Return(FALSE)
         /\ OnlyRuleWith("notIn") = Return(FALSE)
    /\ conditions.type = "all" => result = OnlyRuleWith(OnlyRule.operator)

\* user.age notIn 17, which is no sequence: false, as in would be
C22_Witness ==
  /\ evaluated
  /\ HasOneRule
  /\ conditions.type = "all"
  /\ OnlyRule = ConditionRule(Str(<<"user", ".", "age">>), "notIn", Num(17))
  /\ Resolved = Num(30)
  /\ result = Return(FALSE)
  /\ OnlyRuleWith("in") = Return(FALSE)

\* C23 as stated: exists is true exactly when the path resolves to something
\* other than the absent value, null counting as present, and notExists is
\* true exactly when exists is false.
C23_ExistsAsStated ==
  (/\ evaluated
   /\ HasOneRule
   /\ OnlyRule.field.kind = "string"
   /\ OnlyRule.operator \in {"exists", "notExists"}) =>
    /\ OnlyRuleWith("exists") = Return(Resolved.kind # "undefined")
    /\ OnlyRuleWith("notExists") = Return(Resolved.kind = "undefined")

\* C23 amended: exists is true exactly when the path resolves to something
\* other than the absent value and other than null; notExists is true
\* exactly when exists is false.
C23_ExistsExceptNull ==
  (/\ evaluated
   /\ HasOneRule
   /\ OnlyRule.field.kind = "string"
   /\ OnlyRule.operator \in {"exists", "notExists"}) =>
    /\ OnlyRuleWith("exists") = Return(Resolved.kind \notin {"undefined", "null"})
    /\ OnlyRuleWith("notExists") = Return(Resolved.kind \in {"undefined", "null"})
    /\ conditions.type = "all" => result = OnlyRuleWith(OnlyRule.operator)

\* situation.homelessTonight is set to null: exists is false
C23_Witness ==
  /\ evaluated
  /\ HasOneRule
  /\ conditions.type = "all"
  /\ OnlyRule.field = Str(<<"situation", ".", "homelessTonight">>)
  /\ OnlyRule.operator = "exists"
  /\ "situation" \in DOMAIN sessionState.val
  /\ sessionState.val.situation = Obj([homelessTonight |-> Null])
  /\ result = Return(FALSE)

(***************************************************************************)
(* Required information                                                    *)
(***************************************************************************)
\* state.group.key is there, whatever it holds
Present(state, group, key) ==
  OptionalGet(OptionalGet(state, group), key).kind # "undefined"

\* the field the first keyword of the tag stands for is present
FieldPresent(info, state) ==
  LET tag == toLowerCase(info)
      user == OptionalGet(state, "user")
      Has(word) == Substring(tag, word)
  IN IF Has(<<"l", "o", "c", "a", "t", "i", "o", "n">>)
       THEN Present(state, "situation", "currentLocation")
     ELSE IF Has(<<"a", "g", "e">>)
       THEN Present(state, "user", "age")
     ELSE IF \/ Has(<<"c", "h", "i", "l", "d", "r", "e", "n">>)
             \/ Has(<<"d", "e", "p", "e", "n", "d", "e", "n", "t", "s">>)
       THEN Present(state, "user", "hasChildren")
     ELSE IF Has(<<"n", "a", "m", "e">>)
       THEN /\ Present(state, "user", "firstName")
            /\ Present(state, "user", "lastName")
     ELSE IF Has(<<"c", "o", "n", "t", "a", "c", "t">>)
       THEN \/ OptionalGet(OptionalGet(user, "contact"), "phone").kind # "undefined"
            \/ OptionalGet(OptionalGet(user, "contact"), "email").kind # "undefined"
     ELSE TRUE

\* C24 as stated: prepareAction reports a required-information tag missing
\* exactly when the session field of the first keyword the tag contains
\* (location, age, children/dependents, name, contact, matched without
\* regard to case) is absent, whatever value a present field holds; a tag
\* with none of the keywords is never reported.
C24_MissingIffFieldAbsent ==
  executorOp = "prepareAction" =>
    LET tags == ListOf(executorArg.requiredInformation)
        missing == executorResult.missingInformation
    IN \A i \in 1..Len(tags) :
         (\E k \in 1..Len(missing) : missing[k] = tags[i])
           <=> ~FieldPresent(tags[i], sessionState)

(***************************************************************************)
(* Reference integrity                                                     *)
(***************************************************************************)
\* the ids of the items of a collection of the pack
IdsOf(collection) ==
  {NullishOrEmpty(collection)[i].id : i \in 1..Len(NullishOrEmpty(collection))}

\* a rule of the pack names an action the pack has not, or the entryPoint
\* of the pack names a question the pack has not
HasDanglingReference(pack) ==
  \/ \E i \in 1..Len(NullishOrEmpty(pack.rules)) :
       LET rule == NullishOrEmpty(pack.rules)[i]
       IN /\ "actions" \in DOMAIN rule
          /\ \E k \in 1..Len(rule.actions) : rule.actions[k] \notin IdsOf(pack.actions)
  \/ /\ "entryPoint" \in DOMAIN pack
     /\ pack.entryPoint \notin IdsOf(pack.questions)

\* C25 as stated: loading a pack in which a rule names an action that is
\* none of the pack's actions, or whose entryPoint names none of its
\* questions, fails, and the pack is not registered.
C25_ReferenceIntegrity ==
  (op = "loadContentPack" /\ HasDanglingReference(packData)) =>
    /\ threw
    /\ loadedPacks = before

(***************************************************************************)
(* The session state is only read                                          *)
(***************************************************************************)
\* the action of the list with this id
ActionWithId(actions, id) ==
  actions[CHOOSE i \in 1..Len(actions) : actions[i].id = id]

\* every result of executeActions is what executeAction gives for its
\* action on the session state as it stands
OneSnapshot ==
  \A i \in 1..Len(executorResult) :
    LET done == executorResult[i]
        action == ActionWithId(executorArg.val, done.actionId)
        prereqs == ListOf(action.prerequisites)
    IN /\ done = executeAction(action, sessionState, done.timestamp)
       /\ \A k \in 1..Len(prereqs) :
            (/\ ~Completed(prereqs[k], sessionState)
             /\ \E j \in 1..(i - 1) : /\ executorResult[j].actionId = prereqs[k]
                                      /\ executorResult[j].status = "completed")
              => /\ done.status = "pending"
                 /\ \E m \in 1..(Len(done.message) - 1) :
                      /\ done.message[m] = "Prerequisite action: "
                      /\ done.message[m + 1] = prereqs[k]

\* C26: evaluateRules, getTriggeredActions, prepareAction, executeAction and
\* executeActions leave the session state as it was; every action of one
\* executeActions call is checked against that same state, so an action
\* whose prerequisite was completed earlier in the call is still pending
\* with that prerequisite missing.
C26_SessionStateOnlyRead ==
  [][/\ executorOp' \in {"evaluateRules", "getTriggeredActions", "prepareAction",
                         "executeAction", "executeActions"}
          => sessionState' = sessionState
     /\ executorOp' = "executeActions" => OneSnapshot']_vars

\* a1 is completed in the call and b2, which needs a1, is pending after it
C26_Witness ==
  /\ executorOp = "executeActions"
  /\ ~Completed("a1", sessionState)
  /\ Len(executorResult) = 2
  /\ executorResult[1].actionId = "a1"
  /\ executorResult[1].status = "completed"
  /\ executorResult[2].actionId = "b2"
  /\ executorResult[2].status = "pending"
  /\ ActionWithId(executorArg.val, "b2").prerequisites = Arr(<<"a1", "zz">>)

(***************************************************************************)
(* WorkflowEngine (src/src/hooks/index.ts)                                 *)
(*                                                                         *)
(* An operation that writes to this.session returns the session it         *)
(* leaves along with its result.  Indexes into workflow.questions are      *)
(* those of the source, counted from 0.                                    *)
(***************************************************************************)
\* how many responses a session may come to hold
MaxResponses == 3

ValidationRule(type, value, errorMessage) ==
  [type |-> type, value |-> value, errorMessage |-> errorMessage]

ConditionalLogic(dependsOn, operator, value, action, targetQuestionId) ==
  [dependsOn |-> dependsOn, operator |-> operator, value |-> value,
   action |-> action, targetQuestionId |-> targetQuestionId]

QuestionOption(value, nextQuestionId) ==
  [value |-> value, nextQuestionId |-> nextQuestionId]

WorkflowQuestion(questionId, questionType, isRequired, options, validationRules,
                 conditionalLogic) ==
  [kind |-> "object", questionId |-> questionId, questionType |-> questionType,
   isRequired |-> isRequired, options |-> options,
   validationRules |-> validationRules, conditionalLogic |-> conditionalLogic]

QuestionResponse(questionId, answer) ==
  [questionId |-> questionId, response |-> answer]

Workflow(name, questions) == [name |-> name, questions |-> questions]

WorkflowSession(currentQuestionId, responses, questionsShown, questionsSkipped,
                status, completionPercentage, endTime) ==
  [currentQuestionId |-> currentQuestionId, responses |-> responses,
   questionsShown |-> questionsShown, questionsSkipped |-> questionsSkipped,
   status |-> status, completionPercentage |-> completionPercentage,
   endTime |-> endTime]

\* the least index of a set of indexes
FirstIndex(found) == CHOOSE i \in found : \A j \in found : i <= j

\* workflow.questions.find(q => q.questionId === questionId) || null
getQuestionById(wf, questionId) ==
  LET found == {i \in 1..Len(wf.questions) :
                  StrictEquals(wf.questions[i].questionId, questionId)}
  IN IF found = {} THEN Null ELSE wf.questions[FirstIndex(found)]

getCurrentQuestion(wf, sess) == getQuestionById(wf, sess.currentQuestionId)

\* new RegExp(pattern).test(text), for the patterns the workflows use
RegExpTest(pattern, text) ==
  CASE pattern = "^[0-9]+$" ->
         Len(text) > 0 /\ \A i \in 1..Len(text) : text[i] \in Digits
    [] pattern = "" -> TRUE

\* the error messages of the rules, in order
RECURSIVE RuleErrors(_, _)
RuleErrors(validationRules, answer) ==
  IF validationRules = <<>> THEN <<>>
  ELSE LET rule == Head(validationRules)
           value == answer.response
           failed ==
             CASE rule.type = "required" -> ~Truthy(value)
               [] rule.type = "min" ->
                    /\ value.kind = "number" /\ rule.value.kind = "number"
                    /\ value.val < rule.value.val
               [] rule.type = "max" ->
                    /\ value.kind = "number" /\ rule.value.kind = "number"
                    /\ value.val > rule.value.val
               [] rule.type = "pattern" ->
                    /\ value.kind = "string" /\ rule.value.kind = "string"
                    /\ ~RegExpTest(rule.value.val, value.val)
               [] OTHER -> FALSE
       IN (IF failed THEN <<rule.errorMessage>> ELSE <<>>)
            \o RuleErrors(Tail(validationRules), answer)

validateResponse(question, answer) ==
  LET required == IF question.isRequired /\ ~Truthy(answer.response)
                  THEN <<"This question is required">> ELSE <<>>
      errors == required \o
                (IF Truthy(question.validationRules)
                 THEN RuleErrors(question.validationRules.val, answer)
                 ELSE <<>>)
  IN [isValid |-> Len(errors) = 0, errors |-> errors]

evaluateCondition(condition, answer) ==
  LET value == condition.value
      responseValue == answer.response
  IN CASE condition.operator = "equals" -> StrictEquals(responseValue, value)
       [] condition.operator = "not_equals" -> ~StrictEquals(responseValue, value)
       [] condition.operator = "contains" ->
            IF responseValue.kind = "string" /\ value.kind = "string"
              THEN StringIncludes(responseValue.val, value.val)
            ELSE IF responseValue.kind = "array"
              THEN ArrayIncludes(responseValue.val, value)
            ELSE FALSE
       [] condition.operator = "greater_than" ->
            /\ responseValue.kind = "number" /\ value.kind = "number"
            /\ responseValue.val > value.val
       [] condition.operator = "less_than" ->
            /\ responseValue.kind = "number" /\ value.kind = "number"
            /\ responseValue.val < value.val
       [] condition.operator = "in" ->
            value.kind = "array" /\ ArrayIncludes(value.val, responseValue)
       [] condition.operator = "not_in" ->
            value.kind = "array" /\ ~ArrayIncludes(value.val, responseValue)
       [] OTHER -> FALSE

\* the loop of shouldShowQuestion over the conditions left
RECURSIVE ShownBy(_, _)
ShownBy(conditionalLogic, responses) ==
  IF conditionalLogic = <<>> THEN TRUE
  ELSE LET condition == Head(conditionalLogic)
           found == {i \in 1..Len(responses) :
                       StrictEquals(responses[i].questionId, condition.dependsOn)}
           conditionMet == evaluateCondition(condition, responses[FirstIndex(found)])
       IN IF found = {} THEN ShownBy(Tail(conditionalLogic), responses)
          ELSE IF condition.action = "hide" /\ conditionMet THEN FALSE
          ELSE IF condition.action = "show" /\ ~conditionMet THEN FALSE
          ELSE ShownBy(Tail(conditionalLogic), responses)

shouldShowQuestion(question, sess) ==
  IF ~Truthy(question.conditionalLogic) THEN TRUE
  ELSE ShownBy(question.conditionalLogic.val, sess.responses)

\* what an operation leaves: the session and the question id it returns
Next(sess, nextQuestionId) == [session |-> sess, next |-> nextQuestionId]

\* session.questionsSkipped.push(question.questionId)
Skipped(sess, question) ==
  [sess EXCEPT !.questionsSkipped = Append(@, question.questionId)]

RECURSIVE findNextVisibleQuestion(_, _, _)
findNextVisibleQuestion(wf, sess, startIndex) ==
  IF ~(startIndex < Len(wf.questions)) THEN Next(sess, Null)
  ELSE LET question == wf.questions[startIndex + 1]
       IN IF shouldShowQuestion(question, sess)
          THEN Next(sess, question.questionId)
          ELSE findNextVisibleQuestion(wf, Skipped(sess, question), startIndex + 1)

\* the branch the conditions of the current question decide, if any
RECURSIVE Branch(_, _)
Branch(conditionalLogic, answer) ==
  IF conditionalLogic = <<>> THEN [decided |-> FALSE]
  ELSE LET condition == Head(conditionalLogic)
       IN IF ~evaluateCondition(condition, answer)
            THEN Branch(Tail(conditionalLogic), answer)
          ELSE IF condition.action = "jump_to" /\ Truthy(condition.targetQuestionId)
            THEN [decided |-> TRUE, next |-> condition.targetQuestionId]
          ELSE IF condition.action = "end_workflow"
            THEN [decided |-> TRUE, next |-> Null]
          ELSE Branch(Tail(conditionalLogic), answer)

\* the option of a single_choice question the answer selects, if any
selectedOption(currentQuestion, answer) ==
  LET options == IF /\ currentQuestion.questionType = "single_choice"
                    /\ Truthy(currentQuestion.options)
                 THEN currentQuestion.options.val ELSE <<>>
      found == {i \in 1..Len(options) :
                  StrictEquals(options[i].value, answer.response)}
  IN IF found = {} THEN [nextQuestionId |-> Undefined]
     ELSE options[FirstIndex(found)]

\* workflow.questions.findIndex(q => q.questionId === questionId)
findIndex(wf, questionId) ==
  LET found == {i \in 1..Len(wf.questions) :
                  StrictEquals(wf.questions[i].questionId, questionId)}
  IN IF found = {} THEN -1 ELSE FirstIndex(found) - 1

determineNextQuestion(wf, sess, currentQuestion, answer) ==
  LET option == selectedOption(currentQuestion, answer)
      branch == IF Truthy(currentQuestion.conditionalLogic)
                THEN Branch(currentQuestion.conditionalLogic.val, answer)
                ELSE [decided |-> FALSE]
      currentIndex == findIndex(wf, currentQuestion.questionId)
      nextQuestion == wf.questions[currentIndex + 2]
  IN IF Truthy(option.nextQuestionId) THEN Next(sess, option.nextQuestionId)
     ELSE IF branch.decided THEN Next(sess, branch.next)
     ELSE IF currentIndex < Len(wf.questions) - 1
       THEN IF shouldShowQuestion(nextQuestion, sess)
            THEN Next(sess, nextQuestion.questionId)
            ELSE findNextVisibleQuestion(wf, Skipped(sess, nextQuestion),
                                         currentIndex + 1)
     ELSE Next(sess, Null)

\* Math.round(numerator / denominator), neither negative
MathRound(numerator, denominator) ==
  (2 * numerator + denominator) \div (2 * denominator)

calculateCompletionPercentage(wf, sess) ==
  LET totalQuestions == Len(wf.questions)
      answeredQuestions == Len(sess.responses)
  IN IF totalQuestions = 0 THEN 0
     ELSE MathRound(answeredQuestions * 100, totalQuestions)

\* what submitResponse returns, and the session it leaves
Submission(sess, isValid, errors, nextQuestionId) ==
  [session |-> sess,
   returned |-> [isValid |-> isValid, errors |-> errors,
                 nextQuestionId |-> nextQuestionId]]

\* a refusal that keeps the refused answer in the session
RefusedButKept(sess, answer, errors) ==
  Submission([sess EXCEPT !.responses =
                Append(@, [questionId |-> answer.questionId,
                           response |-> answer.response,
                           isValid |-> FALSE, validationErrors |-> errors])],
             FALSE, errors, Null)

\* return { isValid: false, errors, nextQuestionId: null }
Refused(sess, answer, errors) == Submission(sess, FALSE, errors, Null)

submitResponse(wf, sess, answer, now) ==
  LET question == getCurrentQuestion(wf, sess)
      validationResult == validateResponse(question, answer)
      pushed == [sess EXCEPT
                   !.responses =
                     Append(@, [questionId |-> answer.questionId,
                                response |-> answer.response,
                                isValid |-> TRUE, validationErrors |-> <<>>]),
                   !.questionsShown = Append(@, question.questionId)]
      counted == [pushed EXCEPT !.completionPercentage =
                                  calculateCompletionPercentage(wf, pushed)]
      determined == determineNextQuestion(wf, counted, question, answer)
  IN IF ~Truthy(question)
       THEN Refused(sess, answer, <<"Current question not found">>)
     ELSE IF ~validationResult.isValid
       THEN Refused(sess, answer, validationResult.errors)
     ELSE IF Truthy(determined.next)
       THEN Submission([determined.session EXCEPT
                          !.currentQuestionId = determined.next],
                       TRUE, <<>>, determined.next)
     ELSE Submission([determined.session EXCEPT
                        !.status = "completed",
                        !.completionPercentage = 100,
                        !.endTime = now],
                     TRUE, <<>>, determined.next)

(***************************************************************************)
(* Workflows and the responses submitted to them                           *)
(***************************************************************************)
Yes == Str(<<"y", "e", "s">>)
Again == Str(<<"a", "g", "a", "i", "n">>)
Lost == Str(<<"l", "o", "s", "t">>)
End == Str(<<"e", "n", "d">>)
FortyTwo == Str(<<"4", "2">>)

ResponseValues == {Undefined, Yes, Again, Lost, End, FortyTwo, Num(0), Num(5), Num(20)}

\* q1 routes `again` to itself and `lost` to a question that is not there;
\* q2 and q3 are hidden by some answers to q1; q4 may end the workflow or
\* jump back to q2
Intake ==
  Workflow("intake",
    <<WorkflowQuestion(Str("q1"), "single_choice", TRUE,
        Arr(<<QuestionOption(Yes, Undefined), QuestionOption(Again, Str("q1")),
              QuestionOption(Lost, Str("ghost"))>>),
        Undefined, Undefined),
      WorkflowQuestion(Str("q2"), "number", FALSE, Undefined,
        Arr(<<ValidationRule("min", Num(1), "Too small"),
              ValidationRule("max", Num(10), "Too large")>>),
        Arr(<<ConditionalLogic(Str("q1"), "equals", Yes, "hide", Undefined)>>)),
      WorkflowQuestion(Str("q3"), "text", FALSE, Undefined,
        Arr(<<ValidationRule("pattern", Str("^[0-9]+$"), "Digits only")>>),
        Arr(<<ConditionalLogic(Str("q1"), "in", Arr(<<Yes, Num(5)>>), "hide",
                               Undefined),
              ConditionalLogic(Str("q2"), "greater_than", Num(3), "show",
                               Undefined)>>)),
      WorkflowQuestion(Str("q4"), "text", TRUE, Undefined,
        Arr(<<ValidationRule("required", Undefined, "Needed")>>),
        Arr(<<ConditionalLogic(Str("q4"), "equals", End, "end_workflow", Undefined),
              ConditionalLogic(Str("q4"), "equals", FortyTwo, "jump_to",
                               Str("q2"))>>))>>)

\* q1 routes `again` to itself; q2, the last question, shows only when q1
\* was not answered yes
Short ==
  Workflow("short",
    <<WorkflowQuestion(Str("q1"), "single_choice", FALSE,
        Arr(<<QuestionOption(Again, Str("q1"))>>), Undefined, Undefined),
      WorkflowQuestion(Str("q2"), "text", FALSE, Undefined, Undefined,
        Arr(<<ConditionalLogic(Str("q1"), "not_equals", Yes, "show",
                               Undefined)>>))>>)

Workflows == {Intake, Short}

\* a session that starts at the first question of the workflow
FreshSession(wf) ==
  WorkflowSession(wf.questions[1].questionId, <<>>, <<>>, <<>>, "in_progress", 0,
                  Undefined)

InitWorkflow ==
  /\ workflow \in Workflows
  /\ session = FreshSession(workflow)
  /\ priorSession = Undefined
  /\ submitted = Undefined
  /\ submission = Undefined
  /\ sessionState = Obj(EmptyObject)
  /\ conditions = Undefined
  /\ evaluated = FALSE
  /\ result = NotEvaluated
  /\ rules = <<>>
  /\ calls = <<>>
  /\ matched = <<>>
  /\ triggered = <<>>
  /\ raised = FALSE
  /\ InitLoader
  /\ executorOp = "none"
  /\ executorArg = Undefined
  /\ executorResult = Undefined
  /\ urlPc = "idle"
  /\ fetches = 0
  /\ response = Undefined
  /\ InitNoOverlap

\* engine.submitResponse(answer) for the current question
SubmitResponse(value, now) ==
  /\ Len(session.responses) < MaxResponses
  /\ \E done \in {submitResponse(workflow, session,
                                 QuestionResponse(session.currentQuestionId, value),
                                 now)} :
       /\ session' = done.session
       /\ submission' = done.returned
  /\ priorSession' = session
  /\ submitted' = QuestionResponse(session.currentQuestionId, value)
  /\ UNCHANGED workflow
  /\ UNCHANGED evalVars
  /\ UNCHANGED rulesVars
  /\ UNCHANGED loaderVars
  /\ UNCHANGED executorVars
  /\ UNCHANGED urlVars
  /\ UNCHANGED overlapVars

NextWorkflow == \E value \in ResponseValues, now \in Clock : SubmitResponse(value, now)

SpecWorkflow == InitWorkflow /\ [][NextWorkflow]_vars

(***************************************************************************)
(* Submitting responses                                                    *)
(***************************************************************************)
\* the last submitResponse call was accepted
Accepted == submission # Undefined /\ submission.isValid

\* C27 as stated: after any sequence of submitResponse calls on a fresh
\* session, completionPercentage is between 0 and 100, and it is 100
\* whenever the status has just become completed.
C27_PercentageWithinBounds ==
  /\ session.completionPercentage >= 0
  /\ session.completionPercentage <= 100
  /\ (/\ priorSession # Undefined
      /\ priorSession.status # "completed"
      /\ session.status = "completed") => session.completionPercentage = 100

\* the response fails a check of the question: the required flag, or a
\* required, min, max or pattern rule
Fails(question, value) ==
  LET list == IF question.validationRules.kind = "array"
              THEN question.validationRules.val ELSE <<>>
      empty == value \in {Undefined, Null, Str(<<>>), Num(0), Bool(FALSE)}
  IN \/ question.isRequired /\ empty
     \/ \E i \in 1..Len(list) :
          \/ list[i].type = "required" /\ empty
          \/ /\ list[i].type = "min"
             /\ value.kind = "number" /\ list[i].value.kind = "number"
             /\ value.val < list[i].value.val
          \/ /\ list[i].type = "max"
             /\ value.kind = "number" /\ list[i].value.kind = "number"
             /\ value.val > list[i].value.val
          \/ /\ list[i].type = "pattern"
             /\ list[i].value = Str("^[0-9]+$")
             /\ value.kind = "string"
             /\ \/ value.val = <<>>
                \/ \E k \in 1..Len(value.val) : value.val[k] \notin Digits

\* the questions of the workflow with this id
QuestionsWithId(id) ==
  {i \in 1..Len(workflow.questions) : workflow.questions[i].questionId = id}

\* the call found no current question, or its response fails validation
ShouldFail ==
  \/ QuestionsWithId(priorSession.currentQuestionId) = {}
  \/ \E i \in QuestionsWithId(priorSession.currentQuestionId) :
       Fails(workflow.questions[i], submitted.response)

\* C29: a submitResponse call whose current question is not in the workflow,
\* or whose response fails the required, min, max or pattern validation of
\* the current question, returns isValid = false and nextQuestionId = null
\* and leaves the session as it was; no other call is refused.
C29_FailureLeavesSession ==
  submission # Undefined =>
    /\ ShouldFail <=> ~submission.isValid
    /\ ~submission.isValid =>
         /\ submission.nextQuestionId = Null
         /\ submission.errors # <<>>
         /\ session = priorSession

\* 20 is refused at q2 as too large, after q1 was answered
C29_Witness ==
  /\ submission # Undefined
  /\ ~submission.isValid
  /\ submitted = QuestionResponse(Str("q2"), Num(20))
  /\ submission.errors = <<"Too large">>
  /\ Len(session.responses) = 1
  /\ session.currentQuestionId = Str("q2")

\* the accepted response selects no routing option of the question it
\* answers and meets no jump_to or end_workflow condition of it
NoRouting ==
  LET question == workflow.questions[FirstIndex(QuestionsWithId(priorSession.currentQuestionId))]
      options == IF question.questionType = "single_choice"
                    /\ question.options.kind = "array"
                 THEN question.options.val ELSE <<>>
      logic == IF question.conditionalLogic.kind = "array"
               THEN question.conditionalLogic.val ELSE <<>>
  IN /\ \A i \in 1..Len(options) :
          options[i].value = submitted.response => options[i].nextQuestionId = Undefined
     /\ \A i \in 1..Len(logic) :
          logic[i].action \in {"jump_to", "end_workflow"}
            => ~evaluateCondition(logic[i], submitted)

\* C30 as stated: an accepted response that triggers no routing moves
\* currentQuestionId to the first later question shouldShowQuestion accepts
\* and appends each question passed over to questionsSkipped exactly once;
\* when no later question qualifies the session is completed at 100 per
\* cent and nextQuestionId is null.
C30_NextVisibleQuestion ==
  (Accepted /\ NoRouting) =>
    LET current == FirstIndex(QuestionsWithId(priorSession.currentQuestionId))
        visible == {i \in (current + 1)..Len(workflow.questions) :
                      shouldShowQuestion(workflow.questions[i], session)}
        target == IF visible = {} THEN Len(workflow.questions) + 1
                  ELSE FirstIndex(visible)
        passed == [k \in 1..(target - current - 1) |->
                     workflow.questions[current + k].questionId]
    IN /\ session.questionsSkipped = priorSession.questionsSkipped \o passed
       /\ visible # {} =>
            /\ submission.nextQuestionId = workflow.questions[target].questionId
            /\ session.currentQuestionId = workflow.questions[target].questionId
       /\ visible = {} =>
            /\ submission.nextQuestionId = Null
            /\ session.status = "completed"
            /\ session.completionPercentage = 100

(***************************************************************************)
(* Overlapping loadContentPackFromUrl calls                                *)
(*                                                                         *)
(* Each call has its own response and packData; the calls share            *)
(* loadedPacks.  A call runs from one await to the next without another    *)
(* operation in between.                                                   *)
(***************************************************************************)
\* how many loadContentPackFromUrl calls may be in flight together
MaxUrlCalls == 2

\* a call: where it stands and the Response it holds, until it rejects;
\* the calls are numbered in the order they start
UrlCall(pc, held) == [pc |-> pc, response |-> held]

\* the packs the urls serve for the id uk: two valid ones and version 1.0
OverlapBodies ==
  {pack \in LoaderPacks :
     /\ pack.id = Str("uk")
     /\ pack.name \in {Str("Housing"), Str("Housing 2"), Str("Housing 4")}}

OverlapResponses ==
  {Response(TRUE, body) : body \in OverlapBodies} \cup {Response(FALSE, NotJson)}

\* a step of call c
OverlapStep(c, call, failed, value) ==
  /\ urlCalls' = [urlCalls EXCEPT ![c] = call]
  /\ urlCall' = c
  /\ op' = "loadContentPackFromUrl"
  /\ before' = loadedPacks
  /\ threw' = failed
  /\ returned' = value
  /\ UNCHANGED packId
  /\ UNCHANGED evalVars
  /\ UNCHANGED rulesVars
  /\ UNCHANGED executorVars
  /\ UNCHANGED urlVars
  /\ UNCHANGED workflowVars

\* call c: loadContentPackFromUrl(url) up to `await fetch(url)`
OverlapStart(c) ==
  /\ urlCalls[c].pc = "idle"
  /\ \A d \in 1..(c - 1) : urlCalls[d].pc # "idle"
  /\ OverlapStep(c, UrlCall("fetch", Undefined), FALSE, Undefined)
  /\ UNCHANGED <<loadedPacks, packData>>

\* call c: fetch rejects
OverlapFetchRejects(c) ==
  /\ urlCalls[c].pc = "fetch"
  /\ OverlapStep(c, UrlCall("rejected", Undefined), TRUE, Undefined)
  /\ UNCHANGED <<loadedPacks, packData>>

\* call c: fetch resolves with r
OverlapFetchResolves(c, r) ==
  /\ urlCalls[c].pc = "fetch"
  /\ OverlapStep(c, IF checkOk(r).threw THEN UrlCall("rejected", Undefined)
                    ELSE UrlCall("json", r),
                 checkOk(r).threw, Undefined)
  /\ UNCHANGED <<loadedPacks, packData>>

\* call c: response.json() rejects
OverlapJsonRejects(c) ==
  /\ urlCalls[c].pc = "json"
  /\ OverlapStep(c, UrlCall("rejected", Undefined), TRUE, Undefined)
  /\ UNCHANGED <<loadedPacks, packData>>

\* call c: response.json() resolves: loadContentPack(packData), return
OverlapJsonResolves(c) ==
  /\ urlCalls[c].pc = "json"
  /\ \E done \in {loadParsed(loadedPacks, urlCalls[c].response.body)} :
       /\ OverlapStep(c, IF done.threw THEN UrlCall("rejected", Undefined)
                         ELSE UrlCall("resolved", urlCalls[c].response),
                      done.threw,
                      IF done.threw THEN Undefined ELSE urlCalls[c].response.body)
       /\ loadedPacks' = done.loadedPacks
  /\ packData' = urlCalls[c].response.body

InitOverlappingLoads ==
  /\ urlCalls = [c \in 1..MaxUrlCalls |-> UrlCall("idle", Undefined)]
  /\ urlCall = 0
  /\ sessionState = Obj(EmptyObject)
  /\ conditions = Undefined
  /\ evaluated = FALSE
  /\ result = NotEvaluated
  /\ rules = <<>>
  /\ calls = <<>>
  /\ matched = <<>>
  /\ triggered = <<>>
  /\ raised = FALSE
  /\ InitLoader
  /\ executorOp = "none"
  /\ executorArg = Undefined
  /\ executorResult = Undefined
  /\ urlPc = "idle"
  /\ fetches = 0
  /\ response = Undefined
  /\ InitNoWorkflow

NextOverlappingLoads ==
  \/ \E c \in 1..MaxUrlCalls : OverlapStart(c)
  \/ \E c \in 1..MaxUrlCalls : OverlapFetchRejects(c)
  \/ \E c \in 1..MaxUrlCalls, r \in OverlapResponses : OverlapFetchResolves(c, r)
  \/ \E c \in 1..MaxUrlCalls : OverlapJsonRejects(c)
  \/ \E c \in 1..MaxUrlCalls : OverlapJsonResolves(c)
  \/ \E pack \in OverlapBodies : LoadContentPack(pack)
  \/ RemoveContentPack("uk")
  \/ ClearAll
  \/ GetContentPack("uk")

SpecOverlappingLoads == InitOverlappingLoads /\ [][NextOverlappingLoads]_vars

(***************************************************************************)
(* The repository under overlapping loads                                  *)
(***************************************************************************)
\* the last step was one of an overlapping call, which now stands at pc
OverlapAt(pcs) ==
  /\ op = "loadContentPackFromUrl"
  /\ urlCall # 0
  /\ urlCalls[urlCall].pc \in pcs

\* C28: whatever the interleaving of loadContentPack, overlapping
\* loadContentPackFromUrl calls, removeContentPack, clearAll and the
\* getters, every pack held is one that passes validation and is held under
\* its own id; a load that fails and a getter leave the map as it was, a
\* call that is still waiting has not changed it, and the pack a call
\* registers is the one retained for its id, whichever call started last.
C28_OverlappingLoads ==
  /\ \A i \in 1..Len(loadedPacks) :
       /\ Acceptable(loadedPacks[i].value)
       /\ loadedPacks[i].key = loadedPacks[i].value.id.val
       /\ \A j \in 1..Len(loadedPacks) : loadedPacks[j].key = loadedPacks[i].key => j = i
  /\ op = "getContentPack" => loadedPacks = before
  /\ (op = "loadContentPack" /\ threw) => loadedPacks = before
  /\ OverlapAt({"fetch", "json", "rejected"}) => loadedPacks = before
  /\ OverlapAt({"resolved"}) =>
       /\ Acceptable(packData)
       /\ returned = packData
       /\ getContentPack(loadedPacks, packData.id.val) = packData

\* the call started first registers Housing after the call started second
\* registered Housing 2: Housing is retained
C28_Witness ==
  /\ OverlapAt({"resolved"})
  /\ urlCall = 1
  /\ urlCalls[2].pc = "resolved"
  /\ urlCalls[2].response.body.name = Str("Housing 2")
  /\ packData.name = Str("Housing")
  /\ MapHas(before, "uk")
  /\ getContentPack(before, "uk").name = Str("Housing 2")
  /\ getContentPack(loadedPacks, "uk").name = Str("Housing")

====
